---- MODULE Spec2Model ----
(***************************************************************************)
(* Model of the persistence / reconciliation core of the scraping service *)
(* (src/backend/scraping-service/src/utils.py).                           *)
(*                                                                         *)
(* Python values are tagged records: None, Str(<<chars>>), Num(n),         *)
(* List(<<values>>).  A Python str is a sequence of one-character strings, *)
(* so that strip / lower / split / upper are computed, not assumed.        *)
(* A Python dict is a function whose DOMAIN is the set of its keys.        *)
(***************************************************************************)
EXTENDS Integers, Sequences, FiniteSets, TLC

VARIABLES
    colleges,          \* the in-memory batch handed to the pure functions
    call,              \* the last operation invoked, with a snapshot of its arguments
    ret,               \* the value the last operation returned
    raised,            \* the exception the last operation let escape, or "none"
    credentials,       \* SUPABASE_URL and SUPABASE_KEY are both set
    search_criteria,   \* remote table search_criteria: its rows, in insertion order
    scrape_jobs,       \* remote table scrape_jobs: job id -> save status
    remoteLog,         \* the remote calls the last operation issued, in order
    st_college,        \* remote table st_college: its rows, in insertion order
    st_course,         \* remote table st_course: its rows, in insertion order
    st_college_courses, \* remote table st_college_courses: its rows, in insertion order
    SERVERLESS_MODE,   \* config.SERVERLESS_MODE of the running process
    output_dir,        \* the output directory exists
    csv_file,          \* the delimited file: absent, or its rows with the header first
    CSV_NAME_CACHE,    \* _CSV_NAME_CACHE entry of the delimited file's path
    jsonl_file,        \* the line-delimited JSON file: absent, or its lines
    json_file,         \* the JSON file: absent, or the document it holds
    fsLog,             \* the file-system calls the last operation issued, in order
    career_path_rows,  \* remote table career_path: its rows
    career_paths_staging, \* remote table career_paths_staging: its rows
    aiLog,             \* the generate_content calls the last operation issued, in order
    fetched            \* main() of a career script: the records it fetched and has
                       \* not processed yet, their table, its --force flag

pureVars == <<colleges, call, ret, raised>>
remoteVars == <<credentials, search_criteria, scrape_jobs, remoteLog>>
fsVars == <<SERVERLESS_MODE, output_dir, csv_file, CSV_NAME_CACHE, jsonl_file, json_file,
            fsLog>>
stagingVars == <<st_college, st_course, st_college_courses>>
careerVars == <<career_path_rows, career_paths_staging, aiLog, fetched>>
vars == <<colleges, call, ret, raised, credentials, search_criteria, scrape_jobs, remoteLog,
          st_college, st_course, st_college_courses,
          SERVERLESS_MODE, output_dir, csv_file, CSV_NAME_CACHE, jsonl_file, json_file,
          fsLog, career_path_rows, career_paths_staging, aiLog, fetched>>

----------------------------------------------------------------------------
(* Python values *)

None == [t |-> "none"]
Str(s) == [t |-> "str", s |-> s]
Num(n) == [t |-> "int", n |-> n]
List(l) == [t |-> "list", l |-> l]

IsStr(v) == v.t = "str"
IsList(v) == v.t = "list"

\* bool(v)
Truthy(v) ==
    CASE v.t = "none" -> FALSE
      [] v.t = "str"  -> v.s # <<>>
      [] v.t = "int"  -> v.n # 0
      [] v.t = "list" -> v.l # <<>>

\* dict.get(key, default)
Get(d, key, default) == IF key \in DOMAIN d THEN d[key] ELSE default

Absent == [t |-> "absent"]

\* a dict from <<key, value>> pairs; a pair whose value is Absent gives no key
Dict(pairs) ==
    LET present == {p \in pairs : p[2].t # "absent"}
    IN [k \in {p[1] : p \in present} |-> (CHOOSE p \in present : p[1] = k)[2]]

EmptyStr == Str(<<>>)
EmptyList == List(<<>>)

----------------------------------------------------------------------------
(* Python str methods *)

IsSpace(c) == c = " "

RECURSIVE LStrip(_)
LStrip(s) == IF s = <<>> THEN s
             ELSE IF IsSpace(Head(s)) THEN LStrip(Tail(s)) ELSE s

RECURSIVE RStrip(_)
RStrip(s) == IF s = <<>> THEN s
             ELSE IF IsSpace(s[Len(s)]) THEN RStrip(SubSeq(s, 1, Len(s) - 1)) ELSE s

\* str.strip()
Strip(s) == RStrip(LStrip(s))

LowerChar(c) ==
    CASE c = "A" -> "a" [] c = "B" -> "b" [] c = "D" -> "d" [] c = "E" -> "e"
      [] c = "G" -> "g" [] c = "I" -> "i" [] c = "J" -> "j" [] c = "N" -> "n"
      [] c = "X" -> "x" [] c = "Y" -> "y"
      [] OTHER -> c

UpperChar(c) ==
    CASE c = "a" -> "A" [] c = "b" -> "B" [] c = "d" -> "D" [] c = "e" -> "E"
      [] c = "g" -> "G" [] c = "i" -> "I" [] c = "j" -> "J" [] c = "n" -> "N"
      [] c = "x" -> "X" [] c = "y" -> "Y"
      [] OTHER -> c

\* str.lower()
Lower(s) == [i \in 1..Len(s) |-> LowerChar(s[i])]

\* str.split(sep): the pieces between separators, empty pieces kept
RECURSIVE SplitAcc(_, _, _)
SplitAcc(s, sep, piece) ==
    IF s = <<>> THEN <<piece>>
    ELSE IF Head(s) = sep THEN <<piece>> \o SplitAcc(Tail(s), sep, <<>>)
    ELSE SplitAcc(Tail(s), sep, Append(piece, Head(s)))

Split(s, sep) == SplitAcc(s, sep, <<>>)

\* str(v) for the values str() is applied to
DigitChar(n) == CASE n = 0 -> "0" [] n = 1 -> "1" [] n = 2 -> "2" [] n = 3 -> "3"
                  [] n = 4 -> "4" [] n = 5 -> "5" [] n = 6 -> "6" [] n = 7 -> "7"
                  [] n = 8 -> "8" [] n = 9 -> "9"

PyStr(v) ==
    CASE v.t = "str"  -> v.s
      [] v.t = "int"  -> <<DigitChar(v.n)>>
      [] v.t = "none" -> <<"N", "o", "n", "e">>
      [] v.t = "list" -> <<"[", "]">>

----------------------------------------------------------------------------
(* deduplicate_colleges *)

\* the key without .lower(): a case-sensitive comparison
college_name_key_case_sensitive(college) ==
    Strip(Get(college, "College Name", Get(college, "name", EmptyStr)).s)

\* college.get('College Name', college.get('name', '')).strip().lower()
college_name_key(college) ==
    Lower(Strip(Get(college, "College Name", Get(college, "name", EmptyStr)).s))

\* v and str(v).strip()
HasData(v) == Truthy(v) /\ Strip(PyStr(v)) # <<>>

\* sum(1 for v in college.values() if v and str(v).strip())
field_count(college) == Cardinality({k \in DOMAIN college : HasData(college[k])})

\* new_fields >= existing_fields: a tie replaces the earlier record
richer_or_equal(new_fields, existing_fields) == new_fields >= existing_fields

\* new_fields > existing_fields
richer(new_fields, existing_fields) == new_fields > existing_fields

\* position of a key in the insertion-ordered dict `seen`, 0 when absent
SeenIndex(seen, key) ==
    IF \E i \in 1..Len(seen) : seen[i].key = key
    THEN CHOOSE i \in 1..Len(seen) : seen[i].key = key
    ELSE 0

\* a loop that puts a replacing record at the end of `seen`
RECURSIVE dedupe_loop_moves_replaced(_, _)
dedupe_loop_moves_replaced(rest, seen) ==
    IF rest = <<>> THEN seen
    ELSE LET college == Head(rest)
             college_name == college_name_key(college)
             i == SeenIndex(seen, college_name)
             Others(e) == e.key # college_name
         IN IF college_name = <<>> THEN dedupe_loop_moves_replaced(Tail(rest), seen)
            ELSE IF i = 0
                 THEN dedupe_loop_moves_replaced(Tail(rest),
                          Append(seen, [key |-> college_name, college |-> college]))
            ELSE IF richer(field_count(college), field_count(seen[i].college))
                 THEN dedupe_loop_moves_replaced(Tail(rest),
                          Append(SelectSeq(seen, Others),
                                 [key |-> college_name, college |-> college]))
            ELSE dedupe_loop_moves_replaced(Tail(rest), seen)

\* the for loop over colleges; `seen` is a dict kept in insertion order
RECURSIVE dedupe_loop(_, _)
dedupe_loop(rest, seen) ==
    IF rest = <<>> THEN seen
    ELSE LET college == Head(rest)
             college_name == college_name_key(college)
             i == SeenIndex(seen, college_name)
         IN IF college_name = <<>> THEN dedupe_loop(Tail(rest), seen)
            ELSE IF i = 0
                 THEN dedupe_loop(Tail(rest),
                          Append(seen, [key |-> college_name, college |-> college]))
            ELSE IF richer(field_count(college), field_count(seen[i].college))
                 THEN dedupe_loop(Tail(rest), [seen EXCEPT ![i].college = college])
            ELSE dedupe_loop(Tail(rest), seen)

\* an exception that leaves the function
Raises(exc) == [t |-> "raise", exc |-> exc]

\* .strip() is called on the identity value of every record: a value that is
\* not a str (None, a number, a list) has no such method
dedupe_raises(batch) ==
    \E i \in 1..Len(batch) :
        ~IsStr(Get(batch[i], "College Name", Get(batch[i], "name", EmptyStr)))

\* list(seen.values()), or the AttributeError of the first .strip() that fails
deduplicate_colleges(batch) ==
    IF dedupe_raises(batch) THEN Raises("AttributeError")
    ELSE LET seen == dedupe_loop(batch, <<>>)
         IN [i \in 1..Len(seen) |-> seen[i].college]

----------------------------------------------------------------------------
(* transform_college_data *)

\* the conversion without the `if exam.strip()` / `if exam and ...` filters
entrance_exams_unfiltered(entrance_exams_raw) ==
    IF IsList(entrance_exams_raw)
    THEN List([i \in 1..Len(entrance_exams_raw.l) |->
                 Str(Strip(PyStr(entrance_exams_raw.l[i])))])
    ELSE IF IsStr(entrance_exams_raw)
    THEN LET pieces == Split(entrance_exams_raw.s, ",")
         IN List([i \in 1..Len(pieces) |-> Str(Strip(pieces[i]))])
    ELSE EmptyList

\* Convert entrance_exams to array of strings (the isinstance chain)
entrance_exams_of(entrance_exams_raw) ==
    IF IsList(entrance_exams_raw)
    THEN LET Keep(exam) == Truthy(exam) /\ Strip(PyStr(exam)) # <<>>
             kept == SelectSeq(entrance_exams_raw.l, Keep)
         IN List([i \in 1..Len(kept) |-> Str(Strip(PyStr(kept[i])))])
    ELSE IF IsStr(entrance_exams_raw)
    THEN IF Strip(entrance_exams_raw.s) # <<>>
         THEN LET NonBlank(exam) == Strip(exam) # <<>>
                  kept == SelectSeq(Split(entrance_exams_raw.s, ","), NonBlank)
              IN List([i \in 1..Len(kept) |-> Str(Strip(kept[i]))])
         ELSE EmptyList
    ELSE EmptyList

transform_course(course) ==
    [name           |-> Get(course, "Course Name", EmptyStr),
     annual_fees    |-> Get(course, "Fees", EmptyStr),
     duration       |-> Get(course, "Duration", EmptyStr),
     degree_level   |-> Get(course, "Degree Type", EmptyStr),
     entrance_exams |-> entrance_exams_of(Get(course, "Entrance Exams", EmptyStr))]

\* location.split(',')[0].strip() if location else ""
city_of(college) ==
    LET location == Strip(Get(college, "Location", EmptyStr).s)
    IN IF location # <<>> THEN Strip(Split(location, ",")[1]) ELSE <<>>

\* a transform that copies only the fields the record has, with no defaults
transform_college_present_only(college) ==
    Dict({<<"city", IF "Location" \in DOMAIN college THEN Str(city_of(college)) ELSE Absent>>,
          <<"name", Get(college, "College Name", Absent)>>,
          <<"type", Get(college, "College Type", Absent)>>,
          <<"course_category", Get(college, "Course Category", Absent)>>,
          <<"total_courses", Get(college, "Total Courses", Absent)>>,
          <<"match_percentage", Get(college, "Match Percentage", Absent)>>,
          <<"match_level", Get(college, "Match Level", Absent)>>,
          <<"has_website_link", Get(college, "Has Website Link", Absent)>>,
          <<"college_id", Get(college, "College ID", Absent)>>,
          <<"courses", Get(college, "Courses", Absent)>>})

transform_college(college) ==
    LET courses == Get(college, "Courses", EmptyList).l
    IN [city             |-> Str(city_of(college)),
        name             |-> Get(college, "College Name", EmptyStr),
        type             |-> Get(college, "College Type", EmptyStr),
        course_category  |-> Get(college, "Course Category", EmptyStr),
        total_courses    |-> Get(college, "Total Courses", EmptyStr),
        match_percentage |-> Get(college, "Match Percentage", EmptyStr),
        match_level      |-> Get(college, "Match Level", EmptyStr),
        has_website_link |-> Get(college, "Has Website Link", EmptyStr),
        college_id       |-> Get(college, "College ID", EmptyStr),
        courses          |-> List([i \in 1..Len(courses) |-> transform_course(courses[i])])]

transform_college_data(batch) == [i \in 1..Len(batch) |-> transform_college(batch[i])]

\* the caller's list after transform_college_data returns: the function only reads it
colleges_after_transform(batch) == batch

----------------------------------------------------------------------------
(* save_to_supabase *)

MaxRows == 2

\* value.strip() if value else None
strip_or_none(value) == IF Truthy(value) THEN Str(Strip(value.s)) ELSE None

\* a normalization that trims and maps empty to None but leaves the case alone
normalize_case_trim_only(value) ==
    IF ~Truthy(value) THEN None
    ELSE IF Strip(value.s) = <<>> THEN None ELSE Str(Strip(value.s))

\* _normalize_case: trimmed, first character upper-cased, empty becomes None
normalize_case(value) ==
    IF ~Truthy(value) THEN None
    ELSE LET cleaned == Strip(value.s)
         IN IF cleaned = <<>> THEN None
            ELSE Str(<<UpperChar(cleaned[1])>> \o Tail(cleaned))

\* the remote store's column = value: never true of a NULL column
SqlEq(column_value, value) ==
    /\ column_value.t # "none"
    /\ value.t # "none"
    /\ column_value = value

\* the remote store's column IS NULL
SqlIsNull(column_value) == column_value.t = "none"

\* a None value compared with eq(column, None): equality never matches a NULL column
apply_filter_eq_only(column_value, value) == SqlEq(column_value, value)

\* a None value adds no filter at all: the column is left unconstrained
apply_filter_skip_null(column_value, value) ==
    IF value.t = "none" THEN TRUE ELSE SqlEq(column_value, value)

\* _apply_filter: a None value filters on IS NULL, any other value on equality
apply_filter(column_value, value) ==
    IF value.t = "none" THEN SqlIsNull(column_value) ELSE SqlEq(column_value, value)

\* the rows the four filters select
matching_rows(table, record_data) ==
    {i \in 1..Len(table) :
        /\ apply_filter(table[i].career_path, record_data.career_path)
        /\ apply_filter(table[i].specialization, record_data.specialization)
        /\ apply_filter(table[i].university, record_data.university)
        /\ apply_filter(table[i].location, record_data.location)}

\* a str that is read as JSON text is the value it decodes to, or a text that
\* does not decode: the grammar of JSON is not modelled
\* json.dumps(data): a text that json.loads decodes to the same value
json_dumps(v) == [t |-> "line", valid |-> TRUE, v |-> v]

\* a text that is not JSON text: a blank line, a line cut short by a crash
MalformedLine == [t |-> "line", valid |-> FALSE, v |-> None]

\* json.loads(line)
json_loads(line) == IF line.valid THEN line.v ELSE Raises("JSONDecodeError")

\* llm_json: json_data when it is a dict; else json.loads(json_data), which
\* decodes a str of JSON text and raises for any other str (JSONDecodeError) and
\* for a value that is no str (TypeError); else {"colleges": json_data}.
\* A json_data that is a str is a text (json_dumps(v) or MalformedLine), one that
\* is a list is a List value
llm_json_of(json_data) ==
    IF "t" \notin DOMAIN json_data THEN json_data
    ELSE IF json_data.t = "line" /\ json_data.valid THEN json_loads(json_data)
    ELSE [colleges |-> json_data]

\* record_data: the normalized identity values and the document
record_data_of(json_data, career_path, specialization, location_value, university) ==
    [career_path    |-> normalize_case(strip_or_none(career_path)),
     specialization |-> normalize_case(strip_or_none(specialization)),
     university     |-> normalize_case(strip_or_none(university)),
     location       |-> normalize_case(Str(location_value)),
     llm_json       |-> llm_json_of(json_data)]

RowOf(id, record_data) ==
    [id             |-> id,
     career_path    |-> record_data.career_path,
     specialization |-> record_data.specialization,
     university     |-> record_data.university,
     location       |-> record_data.location,
     llm_json       |-> record_data.llm_json]

Message(text) == [text |-> text]
MessageId(text, id) == [text |-> text, id |-> id]

RemoteCall(table, op) == [table |-> table, op |-> op]

\* what the remote store does to one call: op names the call that goes wrong
\* ("create_client" raises before there is a client; the search_criteria call
\* "select", "update" or "insert" raises; "nodata" is an insert that reports no
\* stored row), status tells that the scrape_jobs update raises
Fault(op, status) == [op |-> op, status |-> status]
NoFault == Fault("none", FALSE)

\* a status update that is never sent
update_job_status_never(jobs, job_id, success, message, fails) ==
    [log |-> <<>>, jobs |-> jobs]

\* _update_job_status: with a job_id, one update of that job's save_success and
\* save_message, whose failure is logged and swallowed; gives the remote calls
\* issued and the jobs table after them
update_job_status(jobs, job_id, success, message, fails) ==
    IF Truthy(job_id)
    THEN [log  |-> <<[table |-> "scrape_jobs", op |-> "update", id |-> job_id.s,
                      save_success |-> success, save_message |-> message]>>,
          jobs |-> [j \in DOMAIN jobs |->
                      IF j = job_id.s /\ ~fails
                      THEN [save_success |-> success, save_message |-> message]
                      ELSE jobs[j]]]
    ELSE [log |-> <<>>, jobs |-> jobs]

Outcome(table, jobs, log, success, message) ==
    [search_criteria |-> table, scrape_jobs |-> jobs, log |-> log,
     result |-> [success |-> success, message |-> message]]

\* the outer except block: the message of the error, one attempt to mark the job
\* as failed when the client exists ('supabase' in locals() and supabase) and
\* there is a job_id, (False, msg)
remote_error(table, jobs, log, job_id, fault, supabase) ==
    LET msg == Message("Error saving to Supabase")
        job == IF supabase THEN update_job_status(jobs, job_id, FALSE, msg, fault.status)
               ELSE [log |-> <<>>, jobs |-> jobs]
    IN Outcome(table, job.jobs, log \o job.log, FALSE, msg)

\* the insert branch
insert_record(table, jobs, log, record_data, job_id, fault) ==
    LET insert == log \o <<RemoteCall("search_criteria", "insert")>>
    IN IF fault.op = "insert" THEN {remote_error(table, jobs, insert, job_id, fault, TRUE)}
       ELSE IF fault.op = "nodata"
       THEN LET msg == Message("Supabase insert returned no data")
                job == update_job_status(jobs, job_id, FALSE, msg, fault.status)
            IN {Outcome(table, job.jobs, insert \o job.log, FALSE, msg)}
       ELSE {LET msg == MessageId("Inserted new record in Supabase", Len(table) + 1)
                 job == update_job_status(jobs, job_id, TRUE, msg, fault.status)
             IN Outcome(Append(table, RowOf(Len(table) + 1, record_data)),
                        job.jobs, insert \o job.log, TRUE, msg) :
                n \in {m \in {Len(table)} : m < MaxRows}}

\* an update branch that stores the record as a new row
update_record_appends(table, jobs, log, record_data, job_id, fault, i) ==
    LET msg == MessageId("Updated existing record in Supabase", table[i].id)
    IN Outcome(Append(table, RowOf(Len(table) + 1, record_data)), jobs, log, TRUE, msg)

\* the update branch, for the row the select returned
update_record(table, jobs, log, record_data, job_id, fault, i) ==
    LET update == log \o <<RemoteCall("search_criteria", "update")>>
    IN IF fault.op = "update" THEN remote_error(table, jobs, update, job_id, fault, TRUE)
       ELSE LET msg == MessageId("Updated existing record in Supabase", table[i].id)
                job == update_job_status(jobs, job_id, TRUE, msg, fault.status)
            IN Outcome([table EXCEPT ![i] = RowOf(table[i].id, record_data)],
                       job.jobs, update \o job.log, TRUE, msg)

\* the find-then-update-or-insert part; the remote store returns any one of the
\* matching rows for limit(1); a row without an id is not updated
reconcile(table, jobs, record_data, job_id, fault) ==
    LET found == matching_rows(table, record_data)
        select == <<RemoteCall("search_criteria", "select")>>
    IN IF fault.op = "select" THEN {remote_error(table, jobs, select, job_id, fault, TRUE)}
       ELSE IF found = {} THEN insert_record(table, jobs, select, record_data, job_id, fault)
       ELSE {update_record(table, jobs, select, record_data, job_id, fault, i) :
                i \in {m \in found : table[m].id # 0}}
            \cup UNION {insert_record(table, jobs, select, record_data, job_id, fault) :
                           i \in {m \in found : table[m].id = 0}}

\* (location or "").strip()
location_value_of(location) == Strip((IF Truthy(location) THEN location ELSE EmptyStr).s)

\* a location check that lets every value through
location_missing_never(location_value) == FALSE

\* not location_value
location_missing(location_value) == location_value = <<>>

\* save_to_supabase: the possible outcomes of one call
save_to_supabase(table, jobs, creds, json_data, career_path, specialization, location, university, job_id, fault) ==
    IF ~creds
    THEN {Outcome(table, jobs, <<>>, FALSE,
                  Message("Supabase credentials not found. Skipping Supabase save."))}
    ELSE IF fault.op = "create_client"
    THEN {remote_error(table, jobs, <<>>, job_id, fault, FALSE)}
    ELSE LET location_value == location_value_of(location)
         IN IF location_missing(location_value)
            THEN LET msg == Message("Location is required to save data to Supabase.")
                     job == update_job_status(jobs, job_id, FALSE, msg, fault.status)
                 IN {Outcome(table, job.jobs, job.log, FALSE, msg)}
            ELSE reconcile(table, jobs,
                           record_data_of(json_data, career_path, specialization,
                                          location_value, university),
                           job_id, fault)

----------------------------------------------------------------------------
(* save_to_staging_tables *)

MaxStagingRows == 4
MaxFailAt == 5

\* what the remote store does to one call of save_to_staging_tables: its
\* raise_at-th remote call raises (0: none does), and every insert into the
\* table `nodata` reports no stored row
StagingFault(raise_at, nodata) ==
    [raise_at |-> raise_at, nodata |-> nodata, create_client |-> FALSE]

\* create_client raises: there is no client to call
StagingClientFault == [raise_at |-> 0, nodata |-> "none", create_client |-> TRUE]

\* the position of the first row with the value in the column, 0 when there is none
RowWhere(table, column, value) ==
    IF \E i \in 1..Len(table) : table[i][column] = value
    THEN CHOOSE i \in 1..Len(table) :
             /\ table[i][column] = value
             /\ \A j \in 1..(i - 1) : table[j][column] # value
    ELSE 0

\* supabase.table(t).<op>(...).execute(): the call is counted and logged, and it
\* raises when it is the one the fault names
Issue(s, table, op, key) ==
    [s EXCEPT !.n = @ + 1,
              !.log = Append(@, [table |-> table, op |-> op, key |-> key]),
              !.raised = (s.n + 1 = s.fault.raise_at)]

\* course_name_to_id[course_name] = course_id
Memoize(s, course_name, course_id) ==
    [s EXCEPT !.memo = [k \in DOMAIN s.memo \cup {course_name} |->
                           IF k = course_name THEN course_id ELSE s.memo[k]]]

\* a look-up that never consults course_name_to_id
course_memoized_never(s, course_name) == FALSE

\* course_name in course_name_to_id
course_memoized(s, course_name) == course_name \in DOMAIN s.memo

\* the id of the course: memoized, found in st_course, or inserted; 0 when the
\* insert reported no data
resolve_course(s, course_name, course) ==
    IF course_memoized(s, course_name) THEN [s |-> s, id |-> s.memo[course_name]]
    ELSE LET s1 == Issue(s, "st_course", "select", course_name)
             at == RowWhere(s.st_course, "name", Str(course_name))
             s2 == Issue(s1, "st_course", "insert", course_name)
             id == Len(s.st_course) + 1
             course_record ==
                 [id |-> id, name |-> Str(course_name),
                  description |-> IF Truthy(Get(course, "degree_level", EmptyStr))
                                  THEN Get(course, "degree_level", EmptyStr) ELSE EmptyStr,
                  duration |-> Get(course, "duration", EmptyStr),
                  degree_level |-> Get(course, "degree_level", EmptyStr),
                  annual_fees |-> Get(course, "annual_fees", EmptyStr)]
         IN IF s1.raised THEN [s |-> s1, id |-> 0]
            ELSE IF at # 0
            THEN [s |-> Memoize(s1, course_name, s.st_course[at].id),
                  id |-> s.st_course[at].id]
            ELSE IF s2.raised \/ s.fault.nodata = "st_course" THEN [s |-> s2, id |-> 0]
            ELSE [s |-> [Memoize(s2, course_name, id) EXCEPT
                            !.st_course = Append(@, course_record),
                            !.courses_inserted = @ + 1],
                  id |-> id]

\* a map_course that counts the mapping whether or not it was found
map_course_counts_found(s, college_id, course_id) ==
    LET key == <<college_id, course_id>>
        s1 == Issue(s, "st_college_courses", "select", key)
        s2 == Issue(s1, "st_college_courses", "insert", key)
    IN IF s1.raised THEN s1
       ELSE IF \E i \in 1..Len(s.st_college_courses) :
                   /\ s.st_college_courses[i].college_id = college_id
                   /\ s.st_college_courses[i].course_id = course_id
       THEN [s1 EXCEPT !.mappings_inserted = @ + 1]
       ELSE IF s2.raised \/ s.fault.nodata = "st_college_courses" THEN s2
       ELSE [s2 EXCEPT !.st_college_courses =
                           Append(@, [college_id |-> college_id, course_id |-> course_id]),
                       !.mappings_inserted = @ + 1]

\* the select on st_college_courses by (college_id, course_id) returned a row
mapping_exists(table, college_id, course_id) ==
    \E i \in 1..Len(table) :
        table[i].college_id = college_id /\ table[i].course_id = course_id

\* the mapping of a college and a course: looked up, inserted when absent
map_course(s, college_id, course_id) ==
    LET key == <<college_id, course_id>>
        s1 == Issue(s, "st_college_courses", "select", key)
        s2 == Issue(s1, "st_college_courses", "insert", key)
    IN IF s1.raised \/ mapping_exists(s.st_college_courses, college_id, course_id) THEN s1
       ELSE IF s2.raised \/ s.fault.nodata = "st_college_courses" THEN s2
       ELSE [s2 EXCEPT !.st_college_courses =
                           Append(@, [college_id |-> college_id, course_id |-> course_id]),
                       !.mappings_inserted = @ + 1]

\* the body of `for course in courses`
staging_course(s, college_id, course) ==
    LET course_name == Strip(Get(course, "name", EmptyStr).s)
        r == resolve_course(s, course_name, course)
    IN IF s.raised \/ course_name = <<>> THEN s
       ELSE IF r.s.raised \/ r.id = 0 THEN r.s
       ELSE map_course(r.s, college_id, r.id)

RECURSIVE staging_courses(_, _, _)
staging_courses(s, college_id, courses) ==
    IF courses = <<>> THEN s
    ELSE staging_courses(staging_course(s, college_id, Head(courses)), college_id,
                         Tail(courses))

\* a college look-up that finds nothing
college_row_never(table, college_name) == 0

\* the select on st_college by exact name: the position of the row, 0 when absent
college_row(table, college_name) == RowWhere(table, "name", Str(college_name))

\* the body of `for college in colleges_data`
staging_college(s, college) ==
    LET college_name == Strip(Get(college, "name", EmptyStr).s)
        courses == Get(college, "courses", EmptyList).l
        s1 == Issue(s, "st_college", "select", college_name)
        at == college_row(s.st_college, college_name)
        s2 == Issue(s1, "st_college", "insert", college_name)
        id == Len(s.st_college) + 1
        city_val == Strip(Get(college, "city", EmptyStr).s)
        type_val == Strip(Get(college, "type", EmptyStr).s)
        college_record ==
            [id |-> id, name |-> Str(college_name),
             description |-> <<college_name, city_val, type_val>>,
             city |-> Str(city_val), type |-> Str(type_val)]
    IN IF s.raised \/ college_name = <<>> THEN s
       ELSE IF s1.raised THEN s1
       ELSE IF at # 0
       THEN staging_courses([s1 EXCEPT !.colleges_skipped = @ + 1],
                            s.st_college[at].id, courses)
       ELSE IF s2.raised \/ s.fault.nodata = "st_college" THEN s2
       ELSE staging_courses([s2 EXCEPT !.st_college = Append(@, college_record),
                                       !.colleges_inserted = @ + 1],
                            id, courses)

RECURSIVE staging_colleges(_, _)
staging_colleges(s, colleges_data) ==
    IF colleges_data = <<>> THEN s
    ELSE staging_colleges(staging_college(s, Head(colleges_data)), Tail(colleges_data))

StagingOutcome(colleges_t, courses_t, mappings_t, jobs, log, success, message) ==
    [st_college |-> colleges_t, st_course |-> courses_t, st_college_courses |-> mappings_t,
     scrape_jobs |-> jobs, log |-> log,
     result |-> [success |-> success, message |-> message]]

\* the success message with its four counters
StagingMessage(s) ==
    [text |-> "Staging tables updated", colleges_inserted |-> s.colleges_inserted,
     colleges_skipped |-> s.colleges_skipped, courses_inserted |-> s.courses_inserted,
     mappings_inserted |-> s.mappings_inserted]

\* a save_to_staging_tables that undoes its inserts when a remote call raises
save_to_staging_tables_atomic(colleges_t, courses_t, mappings_t, jobs, creds, json_data, job_id, fault) ==
    LET colleges_data == Get(json_data, "colleges", <<>>)
        start == [st_college |-> colleges_t, st_course |-> courses_t,
                  st_college_courses |-> mappings_t, memo |-> <<>>, n |-> 0, log |-> <<>>,
                  raised |-> FALSE, fault |-> fault, colleges_inserted |-> 0,
                  colleges_skipped |-> 0, courses_inserted |-> 0, mappings_inserted |-> 0]
        s == staging_colleges(start, colleges_data)
        msg == StagingMessage(s)
        status == Issue(s, "scrape_jobs", "update", job_id.s)
    IN IF ~creds
       THEN StagingOutcome(colleges_t, courses_t, mappings_t, jobs, <<>>, FALSE,
                Message("Supabase credentials not found. Skipping staging table save."))
       ELSE IF fault.create_client
       THEN StagingOutcome(colleges_t, courses_t, mappings_t, jobs, <<>>, FALSE,
                           Message("Error saving to staging tables"))
       ELSE IF colleges_data = <<>>
       THEN StagingOutcome(colleges_t, courses_t, mappings_t, jobs, <<>>, FALSE,
                           Message("No colleges found in JSON data"))
       ELSE IF s.raised
       THEN StagingOutcome(colleges_t, courses_t, mappings_t, jobs, s.log,
                           FALSE, Message("Error saving to staging tables"))
       ELSE IF ~Truthy(job_id)
       THEN StagingOutcome(s.st_college, s.st_course, s.st_college_courses, jobs, s.log,
                           TRUE, msg)
       ELSE StagingOutcome(s.st_college, s.st_course, s.st_college_courses,
                           IF status.raised THEN jobs
                           ELSE [j \in DOMAIN jobs |->
                                    IF j = job_id.s
                                    THEN [save_success |-> TRUE, save_message |-> msg]
                                    ELSE jobs[j]],
                           status.log, TRUE, msg)

\* save_to_staging_tables
save_to_staging_tables(colleges_t, courses_t, mappings_t, jobs, creds, json_data, job_id, fault) ==
    LET colleges_data == Get(json_data, "colleges", <<>>)
        start == [st_college |-> colleges_t, st_course |-> courses_t,
                  st_college_courses |-> mappings_t, memo |-> <<>>, n |-> 0, log |-> <<>>,
                  raised |-> FALSE, fault |-> fault, colleges_inserted |-> 0,
                  colleges_skipped |-> 0, courses_inserted |-> 0, mappings_inserted |-> 0]
        s == staging_colleges(start, colleges_data)
        msg == StagingMessage(s)
        status == Issue(s, "scrape_jobs", "update", job_id.s)
    IN IF ~creds
       THEN StagingOutcome(colleges_t, courses_t, mappings_t, jobs, <<>>, FALSE,
                Message("Supabase credentials not found. Skipping staging table save."))
       ELSE IF fault.create_client
       THEN StagingOutcome(colleges_t, courses_t, mappings_t, jobs, <<>>, FALSE,
                           Message("Error saving to staging tables"))
       ELSE IF colleges_data = <<>>
       THEN StagingOutcome(colleges_t, courses_t, mappings_t, jobs, <<>>, FALSE,
                           Message("No colleges found in JSON data"))
       ELSE IF s.raised
       THEN StagingOutcome(s.st_college, s.st_course, s.st_college_courses, jobs, s.log,
                           FALSE, Message("Error saving to staging tables"))
       ELSE IF ~Truthy(job_id)
       THEN StagingOutcome(s.st_college, s.st_course, s.st_college_courses, jobs, s.log,
                           TRUE, msg)
       ELSE StagingOutcome(s.st_college, s.st_course, s.st_college_courses,
                           IF status.raised THEN jobs
                           ELSE [j \in DOMAIN jobs |->
                                    IF j = job_id.s
                                    THEN [save_success |-> TRUE, save_message |-> msg]
                                    ELSE jobs[j]],
                           status.log, TRUE, msg)

----------------------------------------------------------------------------
(* The career-refinement scripts: process_record *)

\* config.NUM_QUESTIONS
NUM_QUESTIONS == 3

MaxQuestions == 4

\* a slice that keeps the whole value
SliceAll(v, n) == v

\* v[:n] of a list or a str
Slice(v, n) ==
    IF v.t = "list" THEN List(SubSeq(v.l, 1, IF Len(v.l) < n THEN Len(v.l) ELSE n))
    ELSE Str(SubSeq(v.s, 1, IF Len(v.s) < n THEN Len(v.s) ELSE n))

\* v[:n] raises TypeError for a value that is neither
Sliceable(v) == v.t \in {"list", "str"}

\* bool(generated_data): generate_content returned a non-empty dict
Generated(generated_data) ==
    "t" \notin DOMAIN generated_data /\ DOMAIN generated_data # {}

\* data[key] = value
SetKey(data, key, value) ==
    [k \in DOMAIN data \cup {key} |-> IF k = key THEN value ELSE data[k]]

\* {k: v for k, v in row_data.items() if v is not None}
CleanNone(row_data) == [k \in {c \in DOMAIN row_data : row_data[c] # None} |-> row_data[k]]

\* the row with the columns of row_data overwritten
Updated(row, row_data) ==
    [k \in DOMAIN row \cup DOMAIN row_data |->
        IF k \in DOMAIN row_data THEN row_data[k] ELSE row[k]]

\* what process_record leaves: the table, the generate_content calls and the
\* database writes it issued, the flag it returns
Processed(table, ai, log, result) ==
    [table |-> table, ai |-> ai, log |-> log, result |-> [t |-> "bool", b |-> result]]

\* str.replace(old, new)
RECURSIVE str_replace(_, _, _)
str_replace(s, old, new) ==
    IF Len(s) < Len(old) THEN s
    ELSE IF SubSeq(s, 1, Len(old)) = old
    THEN new \o str_replace(SubSeq(s, Len(old) + 1, Len(s)), old, new)
    ELSE <<Head(s)>> \o str_replace(Tail(s), old, new)

\* career_path.lower().replace(" ", "-").replace(",", "").replace("--", "-")
slug_of(career_path) ==
    str_replace(str_replace(str_replace(Lower(career_path), <<" ">>, <<"-">>),
                            <<",">>, <<>>),
                <<"-", "-">>, <<"-">>)

\* update_career of backend/career-refinement-service: the three generated
\* columns that are not None are written to the rows with the id; db tells
\* whether there is a client and whether the call raises
update_career(table, career_data, db) ==
    LET career_id == Get(career_data, "id", None)
        row_data == CleanNone(
                        [k \in {"ask_yourself", "role_description", "impact_sentence"} |->
                            Get(career_data, k, None)])
        write == [table |-> "career_path", op |-> "update", id |-> career_id,
                  row_data |-> row_data]
    IN IF db = "no client" \/ ~Truthy(career_id) THEN Processed(table, <<>>, <<>>, FALSE)
       ELSE IF db = "raises" THEN Processed(table, <<>>, <<write>>, FALSE)
       ELSE Processed([i \in 1..Len(table) |->
                          IF table[i]["id"] = career_id THEN Updated(table[i], row_data)
                          ELSE table[i]],
                      <<>>, <<write>>, TRUE)

\* process_record of backend/career-refinement-service; generated_data is what
\* generate_content returns when it is called
process_record(table, data, force, generated_data, db) ==
    LET existing_questions == Get(data, "ask_yourself", None)
        existing_role_desc == Get(data, "role_description", None)
        existing_impact == Get(data, "impact_sentence", None)
        needs_generation == \/ ~Truthy(existing_questions)
                            \/ ~Truthy(existing_role_desc)
                            \/ ~Truthy(existing_impact)
                            \/ force
        ai == <<Get(data, "name", None)>>
        questions == Get(generated_data, "ask_yourself", None)
        role_desc == Get(generated_data, "role_description", None)
        impact == Get(generated_data, "impact_sentence", None)
        d1 == IF Truthy(questions)
              THEN SetKey(data, "ask_yourself", Slice(questions, NUM_QUESTIONS)) ELSE data
        d2 == IF Truthy(role_desc) THEN SetKey(d1, "role_description", role_desc) ELSE d1
        d3 == IF Truthy(impact) THEN SetKey(d2, "impact_sentence", impact) ELSE d2
        updated == update_career(table, d3, db)
    IN IF ~needs_generation THEN Processed(table, <<>>, <<>>, TRUE)
       ELSE IF ~Generated(generated_data) THEN Processed(table, ai, <<>>, FALSE)
       ELSE IF Truthy(questions) /\ ~Sliceable(questions)
       THEN Processed(table, ai, <<>>, FALSE)
       ELSE [updated EXCEPT !.ai = ai]

\* push_to_staging of src/main.py: an upsert of the eleven columns that are not
\* None on the slug; the description is read under a misspelt key that no record
\* has
push_to_staging(table, career_data, db) ==
    LET named == IF Truthy(Get(career_data, "career_path", None))
                 THEN Get(career_data, "career_path", None)
                 ELSE Get(career_data, "name", None)
        slug == IF Truthy(Get(career_data, "slug", None))
                THEN Get(career_data, "slug", None) ELSE Str(slug_of(named.s))
        row_data == CleanNone(
                        [k \in {"slug", "career_path", "exploration_questions",
                                "description", "refined_description",
                                "role_responsibilities", "key_skills_required",
                                "career_options", "salary_demand", "education_required",
                                "best_colleges"} |->
                            CASE k = "slug" -> slug
                              [] k = "career_path" -> named
                              [] k = "description" -> Get(career_data, "description (misspelt)", None)
                              [] OTHER -> Get(career_data, k, None)])
        write == [table |-> "career_paths_staging", op |-> "upsert", id |-> slug,
                  row_data |-> row_data]
        conflicts == \E i \in 1..Len(table) : table[i]["slug"] = slug
    IN IF db = "no client" \/ ~Truthy(named) THEN Processed(table, <<>>, <<>>, FALSE)
       ELSE IF db = "raises" THEN Processed(table, <<>>, <<write>>, FALSE)
       ELSE Processed(IF conflicts
                      THEN [i \in 1..Len(table) |->
                               IF table[i]["slug"] = slug THEN Updated(table[i], row_data)
                               ELSE table[i]]
                      ELSE Append(table, row_data),
                      <<>>, <<write>>, TRUE)

\* process_record of src/main.py
process_record_staging(table, data, force, generated_data, db) ==
    LET existing_questions == Get(data, "exploration_questions", None)
        existing_refined_desc == Get(data, "refined_description", None)
        needs_generation == \/ ~Truthy(existing_questions)
                            \/ ~Truthy(existing_refined_desc)
                            \/ force
        ai == <<Get(data, "career_path", None)>>
        questions == Get(generated_data, "exploration_questions", None)
        refined_desc == Get(generated_data, "refined_description", None)
        d1 == IF Truthy(questions)
              THEN SetKey(data, "exploration_questions", Slice(questions, NUM_QUESTIONS))
              ELSE data
        d2 == IF Truthy(refined_desc) THEN SetKey(d1, "refined_description", refined_desc)
              ELSE d1
        pushed == push_to_staging(table, d2, db)
    IN IF ~needs_generation THEN Processed(table, <<>>, <<>>, TRUE)
       ELSE IF ~Generated(generated_data) THEN Processed(table, ai, <<>>, FALSE)
       ELSE IF Truthy(questions) /\ ~Sliceable(questions)
       THEN Processed(table, ai, <<>>, FALSE)
       ELSE [pushed EXCEPT !.ai = ai]

----------------------------------------------------------------------------
(* The local sinks: the delimited file, its name cache, the JSON files *)

MaxCsvRows == 2
MaxJsonlLines == 1

\* os.path.exists(filepath) is False
NoFile == [exists |-> FALSE]

\* a delimited file holds rows of cells, a line-delimited file holds lines
File(rows) == [exists |-> TRUE, rows |-> rows]

\* a JSON file holds one document
JsonFile(doc) == [exists |-> TRUE, doc |-> doc]

\* filepath not in _CSV_NAME_CACHE
NotCached == [cached |-> FALSE]

\* _CSV_NAME_CACHE[filepath] = names
Cached(names) == [cached |-> TRUE, names |-> names]

\* Python True / False as return values
PyBool(b) == [t |-> "bool", b |-> b]

\* os.path.join(output_dir, filename)
Filepath(filename) == [t |-> "path", filename |-> filename]

\* the characters of the dict keys that become header cells
KeyChars(key) ==
    CASE key = "College Name" ->
             <<"C", "o", "l", "l", "e", "g", "e", " ", "N", "a", "m", "e">>
      [] key = "name" -> <<"n", "a", "m", "e">>
      [] key = "type" -> <<"t", "y", "p", "e">>

\* the insertion order of the keys of the records handed to the sinks
KeyOrder == <<"College Name", "name", "type">>

\* list(data.keys())
keys_of(data) == LET Has(k) == k \in DOMAIN data IN SelectSeq(KeyOrder, Has)

\* the columns of pd.DataFrame(list of dicts): keys in order of first appearance
RECURSIVE columns_of(_, _)
columns_of(rest, columns) ==
    IF rest = <<>> THEN columns
    ELSE LET New(k) == \A i \in 1..Len(columns) : columns[i] # k
         IN columns_of(Tail(rest), columns \o SelectSeq(keys_of(Head(rest)), New))

\* the text to_csv writes for a value and csv.reader gives back: a missing value
\* (NaN) and None are written as the empty cell
cell_of(v) == IF v.t \in {"absent", "none"} THEN <<>> ELSE PyStr(v)

header_row(columns) == [i \in 1..Len(columns) |-> KeyChars(columns[i])]
data_row(columns, data) == [i \in 1..Len(columns) |-> cell_of(Get(data, columns[i], Absent))]

\* the loop over the rows after the header: the names of the rows read before
\* the fail_at-th row of the file, whose read raises (0: none does)
RECURSIVE read_rows(_, _, _, _, _, _)
read_rows(rows, j, fail_at, expected_columns, name_index, names) ==
    IF j > Len(rows) \/ j = fail_at THEN names
    ELSE LET row == rows[j]
         IN IF row = <<>> \/ Len(row) # expected_columns
            THEN read_rows(rows, j + 1, fail_at, expected_columns, name_index, names)
            ELSE LET name == Strip(row[name_index])
                 IN read_rows(rows, j + 1, fail_at, expected_columns, name_index,
                              IF name # <<>> THEN names \cup {Lower(name)} ELSE names)

\* _read_college_names_from_csv that takes the first column for the name column
read_college_names_first_column(rows, fail_at) ==
    IF fail_at = 1 \/ rows = <<>> \/ Head(rows) = <<>> THEN {}
    ELSE read_rows(rows, 2, fail_at, Len(Head(rows)), 1, {})

\* _read_college_names_from_csv on an existing file; the exception of a failing
\* read is caught and the names collected so far are returned
read_college_names_from_csv(rows, fail_at) ==
    LET header == IF rows = <<>> THEN <<>> ELSE Head(rows)
        normalized_header == [i \in 1..Len(header) |-> Strip(header[i])]
        IsName(i) == normalized_header[i] = KeyChars("College Name")
    IN IF fail_at = 1 THEN {}
       ELSE IF header = <<>> THEN {}
       ELSE IF ~\E i \in 1..Len(header) : IsName(i) THEN {}
       ELSE LET expected_columns == Len(normalized_header)
                name_index == CHOOSE i \in 1..Len(header) :
                                  IsName(i) /\ \A j \in 1..(i - 1) : ~IsName(j)
            IN read_rows(rows, 2, fail_at, expected_columns, name_index, {})

\* a _get_csv_name_cache that reads the file at every call
get_csv_name_cache_rereads(file, cache) ==
    IF file.exists
    THEN [names |-> read_college_names_from_csv(file.rows, 0), reads |-> <<"open:r">>]
    ELSE [names |-> {}, reads |-> <<>>]

\* _get_csv_name_cache: the cached set, read from the file only when none is
\* cached, and the reads of the file the call issued
get_csv_name_cache(file, cache) ==
    IF cache.cached THEN [names |-> cache.names, reads |-> <<>>]
    ELSE IF file.exists
    THEN [names |-> read_college_names_from_csv(file.rows, 0), reads |-> <<"open:r">>]
    ELSE [names |-> {}, reads |-> <<>>]

\* data.get('College Name', '').strip().lower()
new_name_of(data) == Lower(Strip(Get(data, "College Name", EmptyStr).s))

\* what one local-write operation leaves: the files, the writes it issued, its result
Local(mode, dir, csv, cache, jsonl, json, log, result) ==
    [SERVERLESS_MODE |-> mode, output_dir |-> dir, csv_file |-> csv,
     CSV_NAME_CACHE |-> cache, jsonl_file |-> jsonl, json_file |-> json,
     log |-> log, result |-> result, raised |-> "none"]

\* the operation ends by letting the exception escape: it returns nothing
Escapes(local, exc) == [local EXCEPT !.result = None, !.raised = exc]

\* df.to_csv(filepath, mode='a', header=not os.path.exists(filepath), index=False)
to_csv_append(file, data) ==
    LET columns == keys_of(data)
    IN IF file.exists
       THEN File(Append(file.rows, data_row(columns, data)))
       ELSE File(<<header_row(columns), data_row(columns, data)>>)

\* append_to_csv outside read-only mode
append_to_csv_write(fs, data) ==
    LET new_name == new_name_of(data)
        loaded == get_csv_name_cache(fs.csv_file, fs.CSV_NAME_CACHE)
        name_cache == loaded.names
        calls == IF new_name # <<>> THEN <<"makedirs">> \o loaded.reads ELSE <<"makedirs">>
    IN IF new_name # <<>> /\ new_name \in name_cache
       THEN Local(fs.SERVERLESS_MODE, TRUE, fs.csv_file, Cached(name_cache),
                  fs.jsonl_file, fs.json_file, calls, PyBool(TRUE))
       ELSE IF fs.write_fails
       THEN Local(fs.SERVERLESS_MODE, TRUE, fs.csv_file,
                  IF new_name # <<>> THEN Cached(name_cache) ELSE fs.CSV_NAME_CACHE,
                  fs.jsonl_file, fs.json_file, Append(calls, "to_csv:a"), PyBool(FALSE))
       ELSE Local(fs.SERVERLESS_MODE, TRUE, to_csv_append(fs.csv_file, data),
                  IF new_name # <<>> THEN Cached(name_cache \cup {new_name})
                  ELSE fs.CSV_NAME_CACHE,
                  fs.jsonl_file, fs.json_file, Append(calls, "to_csv:a"), PyBool(TRUE))

\* an append_to_csv that does not look at SERVERLESS_MODE
append_to_csv_always_writes(fs, data) == append_to_csv_write(fs, data)

\* append_to_csv
append_to_csv(fs, data) ==
    IF fs.SERVERLESS_MODE
    THEN Local(fs.SERVERLESS_MODE, fs.output_dir, fs.csv_file, fs.CSV_NAME_CACHE,
               fs.jsonl_file, fs.json_file, <<>>, PyBool(TRUE))
    ELSE append_to_csv_write(fs, data)

\* a dict, among the values a line decodes to
IsDict(v) == "t" \notin DOMAIN v

\* the loop over the lines of the line-delimited file: json.JSONDecodeError is
\* caught at the line, any other exception (.get on a value that is no dict,
\* .strip() on a name that is no str) is caught outside the loop and ends it
RECURSIVE read_lines(_, _, _)
read_lines(lines, j, names) ==
    IF j > Len(lines) THEN names
    ELSE LET data == json_loads(lines[j])
         IN IF ~IsDict(data) /\ data.t = "raise"
            THEN read_lines(lines, j + 1, names)
            ELSE IF ~IsDict(data) \/ ~IsStr(Get(data, "College Name", EmptyStr))
            THEN names
            ELSE LET name == new_name_of(data)
                 IN read_lines(lines, j + 1,
                               IF name # <<>> THEN names \cup {name} ELSE names)

\* load_existing_colleges: the names per requested format, and the reads issued;
\* the fail_at-th row of the delimited file cannot be read (0: every row can)
load_existing_colleges(fs, formats, fail_at) ==
    LET default_formats == IF formats.t = "none"
                           THEN <<<<"c", "s", "v">>, <<"j", "s", "o", "n">>>>
                           ELSE formats.l
        formats_lower == [i \in 1..Len(default_formats) |-> Lower(default_formats[i])]
        keys == {formats_lower[i] : i \in 1..Len(formats_lower)}
        csv == <<"c", "s", "v">> \in keys /\ fs.csv_file.exists
        json == <<"j", "s", "o", "n">> \in keys /\ fs.jsonl_file.exists
    IN [existing |-> [fmt \in keys |->
                         IF fmt = <<"c", "s", "v">> /\ csv
                         THEN read_college_names_from_csv(fs.csv_file.rows, fail_at)
                         ELSE IF fmt = <<"j", "s", "o", "n">> /\ json
                         THEN read_lines(fs.jsonl_file.rows, 1, {})
                         ELSE {}],
        log |-> (IF csv THEN <<"open:r">> ELSE <<>>)
                    \o (IF json THEN <<"open:r:jsonl">> ELSE <<>>)]

\* append_to_jsonl: one json.dumps(data) line at the end of the file
append_to_jsonl(fs, data) ==
    IF fs.SERVERLESS_MODE
    THEN Local(fs.SERVERLESS_MODE, fs.output_dir, fs.csv_file, fs.CSV_NAME_CACHE,
               fs.jsonl_file, fs.json_file, <<>>, PyBool(TRUE))
    ELSE IF fs.write_fails
    THEN Local(fs.SERVERLESS_MODE, TRUE, fs.csv_file, fs.CSV_NAME_CACHE,
               fs.jsonl_file, fs.json_file, <<"makedirs", "open:a">>, PyBool(FALSE))
    ELSE Local(fs.SERVERLESS_MODE, TRUE, fs.csv_file, fs.CSV_NAME_CACHE,
               File(Append(IF fs.jsonl_file.exists THEN fs.jsonl_file.rows ELSE <<>>,
                           json_dumps(data))),
               fs.json_file, <<"makedirs", "open:a">>, PyBool(TRUE))

\* pd.DataFrame(data).to_csv(filepath, index=False): the file is replaced by a
\* header of all columns and one row per record
to_csv_overwrite(data) ==
    LET columns == columns_of(data, <<>>)
    IN File(<<header_row(columns)>> \o [i \in 1..Len(data) |-> data_row(columns, data[i])])

\* save_to_csv
save_to_csv(fs, data) ==
    IF fs.SERVERLESS_MODE
    THEN Local(fs.SERVERLESS_MODE, fs.output_dir, fs.csv_file, fs.CSV_NAME_CACHE,
               fs.jsonl_file, fs.json_file, <<>>, None)
    ELSE IF data = <<>>
    THEN Local(fs.SERVERLESS_MODE, TRUE, fs.csv_file, fs.CSV_NAME_CACHE,
               fs.jsonl_file, fs.json_file, <<"makedirs">>, None)
    ELSE IF dedupe_raises(data)
    THEN Escapes(Local(fs.SERVERLESS_MODE, TRUE, fs.csv_file, fs.CSV_NAME_CACHE,
                       fs.jsonl_file, fs.json_file, <<"makedirs">>, None),
                 deduplicate_colleges(data).exc)
    ELSE IF fs.write_fails
    THEN Escapes(Local(fs.SERVERLESS_MODE, TRUE, fs.csv_file, fs.CSV_NAME_CACHE,
                       fs.jsonl_file, fs.json_file, <<"makedirs", "to_csv:w">>, None),
                 "OSError")
    ELSE Local(fs.SERVERLESS_MODE, TRUE, to_csv_overwrite(deduplicate_colleges(data)),
               fs.CSV_NAME_CACHE, fs.jsonl_file, fs.json_file,
               <<"makedirs", "to_csv:w">>, Filepath("csv"))

\* save_to_json: the local part; the remote push is made by the caller's step
save_to_json(fs, data) ==
    IF data # <<>> /\ dedupe_raises(data)
    THEN Escapes(Local(fs.SERVERLESS_MODE, fs.output_dir, fs.csv_file, fs.CSV_NAME_CACHE,
                       fs.jsonl_file, fs.json_file, <<>>, None),
                 deduplicate_colleges(data).exc)
    ELSE IF data = <<>> \/ fs.SERVERLESS_MODE
    THEN Local(fs.SERVERLESS_MODE, fs.output_dir, fs.csv_file, fs.CSV_NAME_CACHE,
               fs.jsonl_file, fs.json_file, <<>>, None)
    ELSE IF fs.write_fails
    THEN Escapes(Local(fs.SERVERLESS_MODE, TRUE, fs.csv_file, fs.CSV_NAME_CACHE,
                       fs.jsonl_file, fs.json_file, <<"makedirs", "open:w">>, None),
                 "OSError")
    ELSE Local(fs.SERVERLESS_MODE, TRUE, fs.csv_file, fs.CSV_NAME_CACHE, fs.jsonl_file,
               JsonFile([colleges |-> transform_college_data(deduplicate_colleges(data))]),
               <<"makedirs", "open:w">>, Filepath("json"))

\* a save_to_json that pushes only when it wrote the file
save_to_json_pushes_after_write(fs, data, push_to_supabase) ==
    data # <<>> /\ push_to_supabase /\ save_to_json(fs, data).result.t = "path"

\* save_to_json reaches its call of save_to_supabase: the batch is not empty,
\* the push was asked for and nothing raised before; SERVERLESS_MODE is not looked at
save_to_json_pushes(fs, data, push_to_supabase) ==
    data # <<>> /\ push_to_supabase /\ save_to_json(fs, data).raised = "none"

\* the file system the next format of save_data finds
After(fs, local) ==
    [fs EXCEPT !.output_dir = local.output_dir, !.csv_file = local.csv_file,
               !.json_file = local.json_file]

\* saved_files[fmt] = filepath
Saved(saved_files, fmt, filepath) ==
    [k \in DOMAIN saved_files \cup {fmt} |-> IF k = fmt THEN filepath ELSE saved_files[k]]

PyDict(d) == [t |-> "dict", d |-> d]

\* one turn of the loop of save_data, for every outcome the remote push can have
save_data_format(s, data, fmt, push_to_supabase, career_path, specialization, location, university, job_id) ==
    IF s.raised # "none" THEN {s}
    ELSE IF Lower(fmt) = <<"c", "s", "v">>
    THEN LET local == save_to_csv(s.fs, data)
         IN {[s EXCEPT !.fs = After(s.fs, local), !.log = @ \o local.log,
                       !.raised = local.raised,
                       !.saved_files = IF local.result.t = "path"
                                       THEN Saved(@, "csv", local.result) ELSE @]}
    ELSE IF Lower(fmt) = <<"j", "s", "o", "n">>
    THEN LET local == save_to_json(s.fs, data)
             written == [s EXCEPT !.fs = After(s.fs, local), !.log = @ \o local.log,
                                  !.raised = local.raised,
                                  !.saved_files = IF local.result.t = "path"
                                                  THEN Saved(@, "json", local.result)
                                                  ELSE @]
         IN IF save_to_json_pushes(s.fs, data, push_to_supabase)
            THEN {[written EXCEPT !.search_criteria = o.search_criteria,
                                  !.scrape_jobs = o.scrape_jobs,
                                  !.remoteLog = @ \o o.log] :
                  o \in save_to_supabase(
                            s.search_criteria, s.scrape_jobs, s.credentials,
                            [colleges |-> transform_college_data(deduplicate_colleges(data))],
                            career_path, specialization, location, university, job_id,
                            NoFault)}
            ELSE {written}
    ELSE {s}

RECURSIVE save_data_formats(_, _, _, _, _, _, _, _, _)
save_data_formats(S, data, formats, push_to_supabase, career_path, specialization, location, university, job_id) ==
    IF formats = <<>> THEN S
    ELSE save_data_formats(
             UNION {save_data_format(s, data, Head(formats), push_to_supabase, career_path,
                                     specialization, location, university, job_id) : s \in S},
             data, Tail(formats), push_to_supabase, career_path, specialization, location,
             university, job_id)

\* save_data: the outcomes of the loop over the formats; the map is returned
\* unless a writer let an exception escape
save_data(fs, table, jobs, creds, data, formats, push_to_supabase, career_path, specialization, location, university, job_id) ==
    save_data_formats({[fs |-> fs, log |-> <<>>, raised |-> "none", saved_files |-> <<>>,
                        search_criteria |-> table, scrape_jobs |-> jobs,
                        credentials |-> creds, remoteLog |-> <<>>]},
                      data, formats, push_to_supabase, career_path, specialization,
                      location, university, job_id)

----------------------------------------------------------------------------
(* Inputs of the pure functions *)

MaxDedupeBatch == 3
MaxTransformBatch == 2
MaxExamLen == 4
MaxExamList == 2

SeqsUpTo(S, n) == UNION {[1..k -> S] : k \in 0..n}

\* a record whose identity attribute is null
NullNameRecord == Dict({<<"College Name", None>>, <<"type", Str(<<"G", "o", "v", "t">>)>>})

\* records as the scraper and its callers build them: old format ('College Name'),
\* new format ('name'), with attributes that are missing, None, blank or filled
DedupeRecords ==
    {Dict({<<"College Name", cn>>, <<"name", nm>>, <<"type", ty>>}) :
        cn \in {Absent, Str(<<" ", "x", " ">>), Str(<<"Y">>)},
        nm \in {Absent, Str(<<"X">>)},
        ty \in {Absent, None, Str(<<" ">>), Str(<<"G", "o", "v", "t">>)}}
    \cup {NullNameRecord}

PlainCourse == Dict({<<"Course Name", Str(<<"B", "A">>)>>, <<"Fees", Str(<<"9">>)>>})

PlainRecords ==
    {Dict({<<"College Name", cn>>, <<"name", nm>>, <<"Location", loc>>,
           <<"College Type", ty>>, <<"Courses", cs>>}) :
        cn \in {Absent, Str(<<"A", "B", "C">>)},
        nm \in {Absent, Str(<<"A", "B", "C">>)},
        loc \in {Absent, Str(<<" ">>), Str(<<"D", "e", "l", "h", "i">>),
                 Str(<<" ", "G", "o", "a", " ", ",", "I", "N">>)},
        ty \in {Absent, Str(<<"G", "o", "v", "t">>)},
        cs \in {Absent, EmptyList, List(<<PlainCourse>>)}}

FullRecord ==
    Dict({<<"College Name", Str(<<"A", "B", "C">>)>>,
          <<"Location", Str(<<"D", "e", "l", "h", "i">>)>>,
          <<"College Type", Str(<<"G", "o", "v", "t">>)>>,
          <<"Course Category", Str(<<"E", "n", "g">>)>>,
          <<"Total Courses", Num(7)>>,
          <<"Match Percentage", Str(<<"9", "0">>)>>,
          <<"Match Level", Str(<<"H", "i">>)>>,
          <<"Has Website Link", Str(<<"Y">>)>>,
          <<"College ID", Num(1)>>,
          <<"Courses", List(<<PlainCourse>>)>>})

ExamChars == {"J", "N", ",", " "}
ExamItems == {None, Str(<<>>), Str(<<" ">>), Str(<<"J">>), Str(<<" ", "N">>), Num(0), Num(7)}

\* the three encodings of 'Entrance Exams': a delimited string, a list, anything else
ExamValues ==
    {Str(s) : s \in SeqsUpTo(ExamChars, MaxExamLen)}
        \cup {List(l) : l \in SeqsUpTo(ExamItems, MaxExamList)}
        \cup {Absent, None, Num(7)}

ExamRecords ==
    {Dict({<<"College Name", Str(<<"A", "B", "C">>)>>,
           <<"Courses", List(<<Dict({<<"Course Name", Str(<<"B", "A">>)>>,
                                     <<"Entrance Exams", e>>})>>)>>}) :
        e \in ExamValues}

TransformBatches ==
    SeqsUpTo(PlainRecords, MaxTransformBatch)
        \cup {<<r>> : r \in ExamRecords \cup {FullRecord}}

NoCall == [op |-> "none"]

----------------------------------------------------------------------------
(* The pure functions as operations on an in-memory batch *)

\* the remote store as the pure functions find and leave it
RemoteIdle ==
    /\ credentials = FALSE
    /\ search_criteria = <<>>
    /\ scrape_jobs = <<>>
    /\ remoteLog = <<>>

\* the staging tables as every operation but save_to_staging_tables leaves them
StagingIdle ==
    /\ st_college = <<>>
    /\ st_course = <<>>
    /\ st_college_courses = <<>>

\* no main() of a career script is running
NoRun == [table |-> "none", records |-> <<>>, force |-> FALSE]

\* the career tables as every operation but the career scripts leaves them
CareerIdle ==
    /\ career_path_rows = <<>>
    /\ career_paths_staging = <<>>
    /\ aiLog = <<>>
    /\ fetched = NoRun

\* the file system as the pure functions and the reconciler find and leave it
FsIdle ==
    /\ SERVERLESS_MODE = FALSE
    /\ output_dir = FALSE
    /\ csv_file = NoFile
    /\ CSV_NAME_CACHE = NotCached
    /\ jsonl_file = NoFile
    /\ json_file = NoFile
    /\ fsLog = <<>>

InitDedupe ==
    /\ RemoteIdle
    /\ FsIdle
    /\ colleges = <<>>
    /\ call = NoCall
    /\ ret = None
    /\ raised = "none"
    /\ StagingIdle
    /\ CareerIdle

\* the caller collects one more scraped record into its batch
Collect(record) ==
    /\ Len(colleges) < MaxDedupeBatch
    /\ colleges' = Append(colleges, record)
    /\ call' = NoCall
    /\ ret' = None
    /\ raised' = "none"
    /\ UNCHANGED <<remoteVars, fsVars, stagingVars, careerVars>>

CallDeduplicate ==
    /\ call' = [op |-> "deduplicate_colleges", colleges |-> colleges]
    /\ IF dedupe_raises(colleges)
       THEN ret' = None /\ raised' = deduplicate_colleges(colleges).exc
       ELSE ret' = deduplicate_colleges(colleges) /\ raised' = "none"
    /\ UNCHANGED <<colleges, remoteVars, fsVars, stagingVars, careerVars>>

NextDedupe ==
    \/ \E record \in DedupeRecords : Collect(record)
    \/ CallDeduplicate

SpecDedupe == InitDedupe /\ [][NextDedupe]_vars

InitTransform ==
    /\ RemoteIdle
    /\ FsIdle
    /\ colleges \in TransformBatches
    /\ call = NoCall
    /\ ret = None
    /\ raised = "none"
    /\ StagingIdle
    /\ CareerIdle

CallTransform ==
    /\ call' = [op |-> "transform_college_data", colleges |-> colleges]
    /\ ret' = transform_college_data(colleges)
    /\ raised' = "none"
    /\ colleges' = colleges_after_transform(colleges)
    /\ UNCHANGED <<remoteVars, fsVars, stagingVars, careerVars>>

NextTransform == CallTransform

SpecTransform == InitTransform /\ [][NextTransform]_vars

----------------------------------------------------------------------------
(* The remote reconciler as operations on the remote store *)

JobIds == {<<"j", "1">>}

\* a {"colleges": [...]} envelope, and a bare list of colleges
Documents ==
    {[colleges |-> List(<<[name |-> Str(<<"A">>)]>>)], List(<<[name |-> Str(<<"B">>)]>>)}

\* documents handed over as text: JSON text of a dict, and text that is no JSON
TextDocuments == {json_dumps([name |-> Str(<<"B">>)]), MalformedLine}

CareerPaths == {Str(<<"e", "n", "g">>), Str(<<" ", "E", "n", "g">>)}
Specializations == {None}
Universities == {None, Str(<<>>), Str(<<"i", "i", "t">>)}
Locations == {None, Str(<<" ">>), Str(<<"D", "e", "l", "h", "i">>), Str(<<"g", "o", "a">>)}
JobArgs == {None} \cup {Str(j) : j \in JobIds}

InitRemote ==
    /\ credentials \in BOOLEAN
    /\ search_criteria = <<>>
    /\ scrape_jobs = [j \in JobIds |-> [save_success |-> None, save_message |-> None]]
    /\ remoteLog = <<>>
    /\ FsIdle
    /\ colleges = <<>>
    /\ call = NoCall
    /\ ret = None
    /\ raised = "none"
    /\ StagingIdle
    /\ CareerIdle

SaveToSupabase(json_data, career_path, specialization, location, university, job_id, fault) ==
    \E o \in save_to_supabase(search_criteria, scrape_jobs, credentials, json_data,
                              career_path, specialization, location, university, job_id,
                              fault) :
        /\ search_criteria' = o.search_criteria
        /\ scrape_jobs' = o.scrape_jobs
        /\ remoteLog' = o.log
        /\ ret' = o.result
        /\ raised' = "none"
        /\ call' = [op |-> "save_to_supabase", json_data |-> json_data,
                    career_path |-> career_path, specialization |-> specialization,
                    location |-> location, university |-> university,
                    job_id |-> job_id, fault |-> fault]
        /\ UNCHANGED <<colleges, credentials, fsVars, stagingVars, careerVars>>

NextRemote ==
    \E json_data \in Documents, career_path \in CareerPaths,
       specialization \in Specializations, location \in Locations,
       university \in Universities, job_id \in JobArgs :
        SaveToSupabase(json_data, career_path, specialization, location, university, job_id,
                       NoFault)

SpecRemote == InitRemote /\ [][NextRemote]_vars

\* the reconciler against a remote store whose calls may fail
RemoteFaults ==
    {Fault(op, status) : op \in {"none", "create_client", "select", "update", "insert",
                                  "nodata"},
                         status \in BOOLEAN}

NextRemoteFaults ==
    \E json_data \in Documents \cup TextDocuments,
       location \in {None, Str(<<>>), Str(<<" ">>), Str(<<"D", "e", "l", "h", "i">>)},
       job_id \in JobArgs, fault \in RemoteFaults :
        SaveToSupabase(json_data, Str(<<"e", "n", "g">>), None, location, None, job_id,
                       fault)

SpecRemoteFaults == InitRemote /\ [][NextRemoteFaults]_vars

\* the reconciler against a table that already holds a row: one that another
\* writer stored with its identity values as typed ("eng"), one that holds them
\* as save_to_supabase stores them ("Eng")
StoredTables ==
    {<<>>} \cup
    {<<[id |-> 1, career_path |-> career_path, specialization |-> None,
        university |-> None, location |-> Str(<<"D", "e", "l", "h", "i">>),
        llm_json |-> [colleges |-> List(<<>>)]]>> :
        career_path \in {Str(<<"e", "n", "g">>), Str(<<"E", "n", "g">>)}}

InitRemoteStored ==
    /\ credentials \in BOOLEAN
    /\ search_criteria \in StoredTables
    /\ scrape_jobs = [j \in JobIds |-> [save_success |-> None, save_message |-> None]]
    /\ remoteLog = <<>>
    /\ FsIdle
    /\ colleges = <<>>
    /\ call = NoCall
    /\ ret = None
    /\ raised = "none"
    /\ StagingIdle
    /\ CareerIdle

NextRemoteStored ==
    \E json_data \in Documents, career_path \in CareerPaths,
       location \in {Str(<<"D", "e", "l", "h", "i">>), Str(<<"g", "o", "a">>)},
       university \in {None, Str(<<"i", "i", "t">>)}, job_id \in JobArgs :
        SaveToSupabase(json_data, career_path, None, location, university, job_id, NoFault)

SpecRemoteStored == InitRemoteStored /\ [][NextRemoteStored]_vars

----------------------------------------------------------------------------
(* The local sinks as operations on the file system *)

MaxSaveBatch == 2

\* scraped records as the sinks receive them: one name in two spellings and with
\* two key sets, a second name, and a record without a name
SinkRecords ==
    {Dict({<<"College Name", Str(<<"A">>)>>}),
     Dict({<<"College Name", Str(<<" ", "a">>)>>, <<"type", Str(<<"G">>)>>}),
     Dict({<<"College Name", Str(<<"B">>)>>}),
     Dict({<<"type", Str(<<"G">>)>>})}

SinkBatches == SeqsUpTo(SinkRecords, MaxSaveBatch)

\* the records and batches used where all four sinks and the remote push run
\* side by side: a named record and a record without a name
LocalRecords ==
    {Dict({<<"College Name", Str(<<"A">>)>>}), Dict({<<"type", Str(<<"G">>)>>})}

LocalBatches == {<<>>} \cup {<<r>> : r \in LocalRecords}

\* the file system and process state the next operation finds
Fs ==
    [SERVERLESS_MODE |-> SERVERLESS_MODE, output_dir |-> output_dir,
     csv_file |-> csv_file, CSV_NAME_CACHE |-> CSV_NAME_CACHE,
     jsonl_file |-> jsonl_file, json_file |-> json_file, write_fails |-> FALSE]

\* the same, with a file system whose next write raises OSError
FailingFs == [Fs EXCEPT !.write_fails = TRUE]

\* the file system and process state one operation leaves
Leave(local) ==
    /\ SERVERLESS_MODE' = local.SERVERLESS_MODE
    /\ output_dir' = local.output_dir
    /\ csv_file' = local.csv_file
    /\ CSV_NAME_CACHE' = local.CSV_NAME_CACHE
    /\ jsonl_file' = local.jsonl_file
    /\ json_file' = local.json_file
    /\ fsLog' = local.log
    /\ ret' = local.result
    /\ raised' = local.raised

\* the delimited file stays within the size explored
CsvFits(file) == file.exists => Len(file.rows) <= MaxCsvRows + 1

InitLocal ==
    /\ SERVERLESS_MODE \in BOOLEAN
    /\ output_dir = FALSE
    /\ csv_file = NoFile
    /\ CSV_NAME_CACHE = NotCached
    /\ jsonl_file = NoFile
    /\ json_file = NoFile
    /\ fsLog = <<>>
    /\ credentials = TRUE
    /\ search_criteria = <<>>
    /\ scrape_jobs = <<>>
    /\ remoteLog = <<>>
    /\ colleges = <<>>
    /\ call = NoCall
    /\ ret = None
    /\ raised = "none"
    /\ StagingIdle
    /\ CareerIdle

AppendToCsv(data) ==
    LET local == append_to_csv(Fs, data)
    IN /\ CsvFits(local.csv_file)
       /\ Leave(local)
       /\ call' = [op |-> "append_to_csv", data |-> data]
       /\ remoteLog' = <<>>
       /\ UNCHANGED <<colleges, credentials, search_criteria, scrape_jobs, stagingVars,
            careerVars>>

AppendToJsonl(data) ==
    LET local == append_to_jsonl(Fs, data)
    IN /\ local.jsonl_file.exists => Len(local.jsonl_file.rows) <= MaxJsonlLines
       /\ Leave(local)
       /\ call' = [op |-> "append_to_jsonl", data |-> data]
       /\ remoteLog' = <<>>
       /\ UNCHANGED <<colleges, credentials, search_criteria, scrape_jobs, stagingVars,
            careerVars>>

SaveToCsv(data) ==
    LET local == save_to_csv(Fs, data)
    IN /\ CsvFits(local.csv_file)
       /\ Leave(local)
       /\ call' = [op |-> "save_to_csv", data |-> data]
       /\ remoteLog' = <<>>
       /\ UNCHANGED <<colleges, credentials, search_criteria, scrape_jobs, stagingVars,
            careerVars>>

\* save_to_json with its push: the file is written first, then save_to_supabase
\* is called with the envelope; its result is only logged
SaveToJson(data, push_to_supabase, career_path, specialization, location, university, job_id) ==
    /\ Leave(save_to_json(Fs, data))
    /\ call' = [op |-> "save_to_json", data |-> data,
                push_to_supabase |-> push_to_supabase, career_path |-> career_path,
                specialization |-> specialization, location |-> location,
                university |-> university]
    /\ IF save_to_json_pushes(Fs, data, push_to_supabase)
       THEN \E o \in save_to_supabase(
                         search_criteria, scrape_jobs, credentials,
                         [colleges |-> transform_college_data(deduplicate_colleges(data))],
                         career_path, specialization, location, university, job_id,
                         NoFault) :
                /\ search_criteria' = o.search_criteria
                /\ scrape_jobs' = o.scrape_jobs
                /\ remoteLog' = o.log
       ELSE /\ remoteLog' = <<>>
            /\ UNCHANGED <<search_criteria, scrape_jobs>>
    /\ UNCHANGED <<colleges, credentials, stagingVars, careerVars>>

\* the process ends and a new one starts: module state is lost, files stay
ProcessRestart(mode) ==
    /\ SERVERLESS_MODE' = mode
    /\ CSV_NAME_CACHE' = NotCached
    /\ call' = [op |-> "restart"]
    /\ ret' = None
    /\ raised' = "none"
    /\ fsLog' = <<>>
    /\ remoteLog' = <<>>
    /\ UNCHANGED <<colleges, credentials, search_criteria, scrape_jobs, output_dir,
                   csv_file, jsonl_file, json_file, stagingVars, careerVars>>

NextLocal ==
    \/ \E data \in LocalRecords : AppendToCsv(data)
    \/ \E data \in LocalRecords : AppendToJsonl(data)
    \/ \E data \in LocalBatches : SaveToCsv(data)
    \/ \E data \in LocalBatches, push_to_supabase \in BOOLEAN :
           SaveToJson(data, push_to_supabase, Str(<<"e", "n", "g">>), None,
                      Str(<<"D", "e", "l", "h", "i">>), None, None)
    \/ \E mode \in BOOLEAN : ProcessRestart(mode)

SpecLocal == InitLocal /\ [][NextLocal]_vars

\* the formats save_data is asked for: each one alone in two spellings, both, and
\* a format it does not know
FormatLists ==
    {<<<<"c", "s", "v">>>>, <<<<"J", "s", "o", "N">>>>,
     <<<<"c", "s", "v">>, <<"j", "s", "o", "n">>>>, <<<<"x">>>>}

SaveData(data, formats, push_to_supabase, write_fails) ==
    \E s \in save_data(IF write_fails THEN FailingFs ELSE Fs, search_criteria, scrape_jobs,
                       credentials, data, formats, push_to_supabase,
                       Str(<<"e", "n", "g">>), None, Str(<<"D", "e", "l", "h", "i">>),
                       None, None) :
        /\ CsvFits(s.fs.csv_file)
        /\ output_dir' = s.fs.output_dir
        /\ csv_file' = s.fs.csv_file
        /\ json_file' = s.fs.json_file
        /\ fsLog' = s.log
        /\ search_criteria' = s.search_criteria
        /\ scrape_jobs' = s.scrape_jobs
        /\ remoteLog' = s.remoteLog
        /\ raised' = s.raised
        /\ ret' = IF s.raised = "none" THEN PyDict(s.saved_files) ELSE None
        /\ call' = [op |-> "save_data", data |-> data, formats |-> formats,
                    push_to_supabase |-> push_to_supabase, write_fails |-> write_fails]
        /\ UNCHANGED <<colleges, credentials, SERVERLESS_MODE, CSV_NAME_CACHE, jsonl_file,
                       stagingVars, careerVars>>

NextSave ==
    \/ \E data \in LocalBatches, formats \in FormatLists,
          push_to_supabase \in BOOLEAN, write_fails \in BOOLEAN :
           SaveData(data, formats, push_to_supabase, write_fails)
    \/ \E mode \in BOOLEAN : ProcessRestart(mode)

SpecSave == InitLocal /\ [][NextSave]_vars

\* one process after another writing one delimited file, outside read-only mode
InitCsv ==
    /\ RemoteIdle
    /\ FsIdle
    /\ colleges = <<>>
    /\ call = NoCall
    /\ ret = None
    /\ raised = "none"
    /\ StagingIdle
    /\ CareerIdle

NextCsv ==
    \/ \E data \in SinkRecords : AppendToCsv(data)
    \/ \E data \in SinkBatches : SaveToCsv(data)
    \/ ProcessRestart(FALSE)

SpecCsv == InitCsv /\ [][NextCsv]_vars

----------------------------------------------------------------------------
(* Resuming: the names already on the files *)

MaxLoadRows == 3
MaxLoadLines == 3

\* header lines: the name column alone, the name column second and padded, no
\* name column, a blank first line
LoadHeaders ==
    {<<KeyChars("College Name")>>,
     <<KeyChars("type"), <<" ">> \o KeyChars("College Name") \o <<" ">>>>,
     <<KeyChars("type")>>, <<>>}

\* a row of one cell, two rows of two cells, a blank line, a row with a blank name
LoadRows ==
    {<<<<"A">>>>, <<<<"G">>, <<" ", "B", " ">>>>, <<<<"G">>, <<"X">>>>, <<>>, <<<<" ">>>>}

LoadCsvFiles ==
    {File(<<>>)} \cup {File(<<h>> \o rows) : h \in LoadHeaders,
                                            rows \in SeqsUpTo(LoadRows, MaxLoadRows)}

\* lines: two records, a line that is not JSON, a JSON list, a record whose name is null
LoadLines ==
    {json_dumps(Dict({<<"College Name", Str(<<"A">>)>>})),
     json_dumps(Dict({<<"College Name", Str(<<" ", "B">>)>>, <<"type", Str(<<"G">>)>>})),
     MalformedLine,
     json_dumps(List(<<Num(1)>>)),
     json_dumps(NullNameRecord)}

LoadJsonlFiles == {File(lines) : lines \in SeqsUpTo(LoadLines, MaxLoadLines)}

LoadFormats ==
    {None, List(<<<<"c", "s", "v">>>>), List(<<<<"J", "s", "o", "N">>>>), List(<<<<"x">>>>)}

\* a new process finds the files an earlier one left
InitLoad ==
    /\ RemoteIdle
    /\ StagingIdle
    /\ CareerIdle
    /\ SERVERLESS_MODE = FALSE
    /\ output_dir = TRUE
    /\ CSV_NAME_CACHE = NotCached
    /\ json_file = NoFile
    /\ fsLog = <<>>
    /\ \/ csv_file \in LoadCsvFiles /\ jsonl_file = NoFile
       \/ csv_file = NoFile /\ jsonl_file \in LoadJsonlFiles
    /\ colleges = <<>>
    /\ call = NoCall
    /\ ret = None
    /\ raised = "none"

LoadExistingColleges(formats, fail_at) ==
    LET loaded == load_existing_colleges(Fs, formats, fail_at)
    IN /\ ret' = PyDict(loaded.existing)
       /\ raised' = "none"
       /\ fsLog' = loaded.log
       /\ call' = [op |-> "load_existing_colleges", formats |-> formats,
                   fail_at |-> fail_at]
       /\ remoteLog' = <<>>
       /\ UNCHANGED <<colleges, credentials, search_criteria, scrape_jobs, stagingVars,
            careerVars,
                      SERVERLESS_MODE, output_dir, csv_file, CSV_NAME_CACHE, jsonl_file,
                      json_file>>

NextLoad ==
    \E formats \in LoadFormats, fail_at \in 0..(MaxLoadRows + 1) :
        LoadExistingColleges(formats, fail_at)

SpecLoad == InitLoad /\ [][NextLoad]_vars

----------------------------------------------------------------------------
(* The staging projection as operations on the remote store *)

StagingCourse(name) == Dict({<<"name", Str(name)>>, <<"degree_level", Str(<<"U", "G">>)>>})

StagingCollege(name, courses) ==
    Dict({<<"name", Str(name)>>, <<"city", Str(<<"G", "o", "a">>)>>,
          <<"type", Str(<<"G", "o", "v", "t">>)>>, <<"courses", List(courses)>>})

\* {"colleges": [...]} envelopes: a batch that repeats a college and a course,
\* batches that repeat what an earlier one stored, names that are blank, an empty
\* batch and a document without the key
StagingDocuments ==
    {[colleges |-> <<StagingCollege(<<"A">>, <<StagingCourse(<<"c">>)>>)>>],
     [colleges |-> <<StagingCollege(<<"A">>, <<StagingCourse(<<"c">>),
                                             StagingCourse(<<" ", "c">>)>>),
                     StagingCollege(<<" ", "A">>, <<StagingCourse(<<"d">>)>>)>>],
     [colleges |-> <<StagingCollege(<<"B">>, <<StagingCourse(<<"c">>)>>),
                     StagingCollege(<<"A">>, <<StagingCourse(<<"c">>)>>)>>],
     [colleges |-> <<StagingCollege(<<" ">>, <<StagingCourse(<<"c">>)>>),
                     StagingCollege(<<"B">>, <<StagingCourse(<<>>)>>)>>],
     [colleges |-> <<>>],
     [job |-> <<>>]}

\* no failure, one raising call, inserts into one table that report no data, or
\* no client
StagingFaults ==
    {StagingFault(raise_at, "none") : raise_at \in 0..MaxFailAt}
        \cup {StagingFault(0, "st_college"), StagingFault(0, "st_course"),
              StagingClientFault}

InitStaging ==
    /\ credentials \in BOOLEAN
    /\ search_criteria = <<>>
    /\ scrape_jobs = [j \in JobIds |-> [save_success |-> None, save_message |-> None]]
    /\ remoteLog = <<>>
    /\ FsIdle
    /\ colleges = <<>>
    /\ call = NoCall
    /\ ret = None
    /\ raised = "none"
    /\ StagingIdle
    /\ CareerIdle

SaveToStagingTables(json_data, job_id, fault) ==
    \E o \in {save_to_staging_tables(st_college, st_course, st_college_courses,
                                     scrape_jobs, credentials, json_data, job_id, fault)} :
        /\ Len(o.st_college) <= MaxStagingRows
        /\ Len(o.st_course) <= MaxStagingRows
        /\ Len(o.st_college_courses) <= MaxStagingRows
        /\ st_college' = o.st_college
        /\ st_course' = o.st_course
        /\ st_college_courses' = o.st_college_courses
        /\ scrape_jobs' = o.scrape_jobs
        /\ remoteLog' = o.log
        /\ ret' = o.result
        /\ raised' = "none"
        /\ call' = [op |-> "save_to_staging_tables", json_data |-> json_data,
                    job_id |-> job_id, fault |-> fault]
        /\ UNCHANGED <<colleges, credentials, search_criteria, fsVars, careerVars>>

NextStaging ==
    \E json_data \in StagingDocuments, job_id \in JobArgs, fault \in StagingFaults :
        SaveToStagingTables(json_data, job_id, fault)

SpecStaging == InitStaging /\ [][NextStaging]_vars

----------------------------------------------------------------------------
(* The career-refinement scripts as operations on the career tables *)

Question(i) == Str(<<"q">> \o PyStr(Num(i)))
QuestionList(n) == List([i \in 1..n |-> Question(i)])

\* what a record holds for its questions before the scripts run: nothing, one
\* question, NUM_QUESTIONS questions
StoredQuestions == {None, List(<<Str(<<"o">>)>>), QuestionList(NUM_QUESTIONS)}

\* a row of career_path, with any of its generated columns missing or present
CareerRow(id, questions, role_description, impact_sentence) ==
    Dict({<<"id", Num(id)>>, <<"slug", Str(<<"s", "l">>)>>, <<"name", Str(<<"A", " ", "b">>)>>,
          <<"ask_yourself", questions>>, <<"role_description", role_description>>,
          <<"impact_sentence", impact_sentence>>})

CareerTables ==
    {<<CareerRow(1, q, r, i)>> :
        q \in StoredQuestions, r \in {None, Str(<<"r">>)}, i \in {None, Str(<<"i">>)}}

\* rows of career_paths_staging, with and without a slug; description and
\* key_skills_required are two of the columns generate_content reads
StagingCareerRow(slug, questions, refined_description) ==
    Dict({<<"slug", slug>>, <<"career_path", Str(<<"A", " ", "b">>)>>,
          <<"exploration_questions", questions>>,
          <<"refined_description", refined_description>>,
          <<"description", Str(<<"d">>)>>, <<"key_skills_required", Str(<<"k">>)>>})

StagingCareerTables ==
    {<<StagingCareerRow(slug, q, r)>> :
        slug \in {None, Str(<<"s", "l">>)}, q \in StoredQuestions,
        r \in {None, Str(<<"r">>)}}

\* what the parsed JSON of generate_content can hold for the questions: no key,
\* an empty list, a number, a text of MaxQuestions characters, lists of one,
\* NUM_QUESTIONS and MaxQuestions questions
GeneratedQuestions ==
    {Absent, List(<<>>), Num(7), Str([i \in 1..MaxQuestions |-> "q"])}
        \cup {QuestionList(n) : n \in {1, NUM_QUESTIONS, MaxQuestions}}

\* what generate_content can return: None, or a dict (the empty one included)
\* with both descriptions, the role description alone, or neither
GeneratedContent ==
    {None} \cup {Dict({<<"ask_yourself", q>>, <<"role_description", d[1]>>,
                       <<"impact_sentence", d[2]>>}) :
                    q \in GeneratedQuestions,
                    d \in {<<Absent, Absent>>, <<Str(<<"R">>), Absent>>,
                           <<Str(<<"R">>), Str(<<"I">>)>>}}

GeneratedStagingContent ==
    {None} \cup {Dict({<<"exploration_questions", q>>, <<"refined_description", r>>}) :
                    q \in GeneratedQuestions, r \in {Absent, Str(<<"R">>)}}

\* the client works, its call raises, get_supabase() returns None
DbStates == {"ok", "raises", "no client"}

\* inside main() a record was fetched, so the singleton client exists
CallStates == {"ok", "raises"}

InitCareer ==
    /\ RemoteIdle
    /\ FsIdle
    /\ StagingIdle
    /\ \/ career_path_rows \in CareerTables /\ career_paths_staging = <<>>
       \/ career_path_rows = <<>> /\ career_paths_staging \in StagingCareerTables
    /\ aiLog = <<>>
    /\ fetched = NoRun
    /\ colleges = <<>>
    /\ call = NoCall
    /\ ret = None
    /\ raised = "none"

\* fetch_all_careers: response.data, or [] without a client or when the call
\* raises
fetch_all_careers(table, db) == IF db = "ok" THEN table ELSE <<>>

\* fetch_career_by_name, fetch_career_by_slug, fetch_career_by_path:
\* response.data[0] of select("*").eq(column, value), or None
fetch_career_by(table, column, value, db) ==
    LET found == {i \in 1..Len(table) : Get(table[i], column, None) = value}
    IN IF db # "ok" \/ found = {} THEN None
       ELSE table[CHOOSE i \in found : \A j \in found : i <= j]

\* the values of a column that a command line can name
NamesIn(table, column) ==
    {Get(table[i], column, None) : i \in 1..Len(table)} \ {None}

\* main(--all) of a career script up to its loop: the records are fetched once
FetchAll(name, table, force, db) ==
    /\ fetched.records = <<>>
    /\ table # <<>>
    /\ fetched' = [table |-> name, records |-> fetch_all_careers(table, db),
                   force |-> force]
    /\ aiLog' = <<>>
    /\ remoteLog' = <<>>
    /\ ret' = None
    /\ raised' = "none"
    /\ call' = [op |-> "fetch_all_careers", table |-> name, force |-> force, db |-> db]
    /\ UNCHANGED <<colleges, credentials, search_criteria, scrape_jobs, stagingVars, fsVars,
                   career_path_rows, career_paths_staging>>

\* main(--all) of backend/career-refinement-service up to its loop
FetchAllCareers(force, db) == FetchAll("career_path", career_path_rows, force, db)

\* main(--all) of src/main.py up to its loop
FetchAllStaging(force, db) ==
    FetchAll("career_paths_staging", career_paths_staging, force, db)

\* what a call of process_record leaves
Leaves(name, data, force, generated_data, db, o) ==
    /\ aiLog' = o.ai
    /\ remoteLog' = o.log
    /\ ret' = o.result
    /\ raised' = "none"
    /\ call' = [op |-> "process_record", table |-> name, data |-> data, force |-> force,
                generated_data |-> generated_data, db |-> db]
    /\ UNCHANGED <<colleges, credentials, search_criteria, scrape_jobs, stagingVars, fsVars>>

\* one turn of the loop of main(--all) of backend/career-refinement-service:
\* process_record on the next fetched record, as it was when it was fetched
ProcessRecord(generated_data, db) ==
    /\ fetched.table = "career_path"
    /\ fetched.records # <<>>
    /\ \E o \in {process_record(career_path_rows, Head(fetched.records), fetched.force,
                                generated_data, db)} :
           /\ career_path_rows' = o.table
           /\ Leaves("career_path", Head(fetched.records), fetched.force, generated_data,
                     db, o)
    /\ fetched' = [fetched EXCEPT !.records = Tail(@)]
    /\ UNCHANGED career_paths_staging

\* one turn of the loop of main(--all) of src/main.py
ProcessRecordStaging(generated_data, db) ==
    /\ fetched.table = "career_paths_staging"
    /\ fetched.records # <<>>
    /\ \E o \in {process_record_staging(career_paths_staging, Head(fetched.records),
                                        fetched.force, generated_data, db)} :
           /\ career_paths_staging' = o.table
           /\ Leaves("career_paths_staging", Head(fetched.records), fetched.force,
                     generated_data, db, o)
    /\ fetched' = [fetched EXCEPT !.records = Tail(@)]
    /\ UNCHANGED career_path_rows

\* main(--name) and main(--slug) of backend/career-refinement-service: the
\* record is fetched and processed at once
ProcessNamed(column, value, force, generated_data, db) ==
    /\ fetched.records = <<>>
    /\ value \in NamesIn(career_path_rows, column)
    /\ \E o \in {process_record(career_path_rows,
                                fetch_career_by(career_path_rows, column, value, "ok"),
                                force, generated_data, db)} :
           /\ career_path_rows' = o.table
           /\ Leaves("career_path", fetch_career_by(career_path_rows, column, value, "ok"),
                     force, generated_data, db, o)
    /\ fetched' = NoRun
    /\ UNCHANGED career_paths_staging

\* main(--career-path) of src/main.py
ProcessCareerPath(value, force, generated_data, db) ==
    /\ fetched.records = <<>>
    /\ value \in NamesIn(career_paths_staging, "career_path")
    /\ \E o \in {process_record_staging(
                     career_paths_staging,
                     fetch_career_by(career_paths_staging, "career_path", value, "ok"),
                     force, generated_data, db)} :
           /\ career_paths_staging' = o.table
           /\ Leaves("career_paths_staging",
                     fetch_career_by(career_paths_staging, "career_path", value, "ok"),
                     force, generated_data, db, o)
    /\ fetched' = NoRun
    /\ UNCHANGED career_path_rows

NextCareer ==
    \/ \E force \in BOOLEAN, db \in DbStates : FetchAllCareers(force, db)
    \/ \E generated_data \in GeneratedContent, db \in CallStates :
           ProcessRecord(generated_data, db)
    \/ \E by \in {<<"name", Str(<<"A", " ", "b">>)>>, <<"slug", Str(<<"s", "l">>)>>},
          force \in BOOLEAN, generated_data \in GeneratedContent, db \in CallStates :
           ProcessNamed(by[1], by[2], force, generated_data, db)
    \/ \E force \in BOOLEAN, db \in DbStates : FetchAllStaging(force, db)
    \/ \E generated_data \in GeneratedStagingContent, db \in CallStates :
           ProcessRecordStaging(generated_data, db)
    \/ \E value \in {Str(<<"A", " ", "b">>)}, force \in BOOLEAN,
          generated_data \in GeneratedStagingContent, db \in CallStates :
           ProcessCareerPath(value, force, generated_data, db)

SpecCareer == InitCareer /\ [][NextCareer]_vars

----------------------------------------------------------------------------
(* Claims about process_record *)

\* the columns process_record generates, per script
GeneratedFields(table) ==
    IF table = "career_path" THEN {"ask_yourself", "role_description", "impact_sentence"}
    ELSE {"exploration_questions", "refined_description"}

QuestionsField(table) ==
    IF table = "career_path" THEN "ask_yourself" ELSE "exploration_questions"

AllPresent(c) == \A k \in GeneratedFields(c.table) : Truthy(Get(c.data, k, None))

\* the question lists a sequence of rows holds
QuestionLists(rows, key) ==
    {Get(rows[i], key, None) : i \in 1..Len(rows)} \ {None}

\* len(q) of a list or a str
Entries(q) == IF q.t = "list" THEN Len(q.l) ELSE Len(q.s)

\* C28: in both career-refinement scripts process_record writes to the database
\* only after a successful generation.  A record whose generated fields are all
\* present, processed without force, returns True with no generate_content call,
\* no database call and both tables as they were; a generation that returns
\* nothing (None or an empty dict) returns False with no database call and both
\* tables as they were; a database call or a changed table comes only with one
\* generate_content call that returned something; and no question list sent to
\* or stored in either table holds more than NUM_QUESTIONS entries.
C28_WritesOnlyAfterGeneration ==
    [][call'.op = "process_record" =>
        /\ (AllPresent(call') /\ ~call'.force) =>
              /\ ret' = PyBool(TRUE)
              /\ aiLog' = <<>>
              /\ remoteLog' = <<>>
              /\ UNCHANGED <<career_path_rows, career_paths_staging>>
        /\ (~(AllPresent(call') /\ ~call'.force) /\ ~Generated(call'.generated_data)) =>
              /\ ret' = PyBool(FALSE)
              /\ Len(aiLog') = 1
              /\ remoteLog' = <<>>
              /\ UNCHANGED <<career_path_rows, career_paths_staging>>
        /\ (remoteLog' # <<>> \/ career_path_rows' # career_path_rows
                              \/ career_paths_staging' # career_paths_staging) =>
              /\ Len(aiLog') = 1
              /\ Generated(call'.generated_data)
              /\ Len(remoteLog') = 1
        /\ \A q \in QuestionLists(career_path_rows', "ask_yourself")
                    \cup QuestionLists(career_paths_staging', "exploration_questions")
                    \cup QuestionLists([i \in 1..Len(remoteLog') |-> remoteLog'[i].row_data],
                                       QuestionsField(call'.table)) :
              q.t \in {"list", "str"} /\ Entries(q) <= NUM_QUESTIONS
    ]_vars

\* process_record of the service was handed a record without questions, the
\* generation returned MaxQuestions questions, and the row now holds the first
\* NUM_QUESTIONS of them
C28_Witness ==
    /\ call.op = "process_record"
    /\ call.table = "career_path"
    /\ ~Truthy(call.data["ask_yourself"])
    /\ Generated(call.generated_data)
    /\ Get(call.generated_data, "ask_yourself", None) = QuestionList(MaxQuestions)
    /\ MaxQuestions > NUM_QUESTIONS
    /\ ret = PyBool(TRUE)
    /\ Len(aiLog) = 1
    /\ Len(remoteLog) = 1
    /\ career_path_rows[1]["ask_yourself"] = QuestionList(NUM_QUESTIONS)

----------------------------------------------------------------------------
(* Claims about the local sinks *)

\* the number of data rows of the file that hold the normalized name in a cell
RowsNamed(file, name) ==
    IF file.exists
    THEN Cardinality({j \in 2..Len(file.rows) :
                         \E i \in 1..Len(file.rows[j]) :
                             Lower(Strip(file.rows[j][i])) = name})
    ELSE 0

\* C1: outside read-only mode, when append_to_csv is called twice in a row in one
\* process with records whose 'College Name' is non-empty and equal after trim and
\* lower-casing, the second call returns True without writing and the file then
\* holds exactly one data row for that name.
C1_SecondAppendLeavesOneRow ==
    [][(/\ ~SERVERLESS_MODE'
        /\ call.op = "append_to_csv"
        /\ call'.op = "append_to_csv"
        /\ new_name_of(call.data) # <<>>
        /\ new_name_of(call'.data) = new_name_of(call.data))
       => (/\ ret' = PyBool(TRUE)
           /\ csv_file' = csv_file
           /\ RowsNamed(csv_file', new_name_of(call'.data)) = 1)]_vars

LocalWriteOps == {"append_to_csv", "append_to_jsonl", "save_to_csv", "save_to_json"}

\* the value tells the caller that the operation succeeded: True, or the path of
\* the file written
IsSuccess(r) == r.t = "path" \/ (r.t = "bool" /\ r.b)

FilesUnchanged == UNCHANGED <<output_dir, csv_file, jsonl_file, json_file>>

\* C5 (as stated): under SERVERLESS_MODE each of append_to_csv, append_to_jsonl,
\* save_to_csv and save_to_json returns a success value and changes nothing in
\* the file system.
C5_ReadOnlyReturnsSuccess ==
    [][(SERVERLESS_MODE' /\ call'.op \in LocalWriteOps)
       => (IsSuccess(ret') /\ FilesUnchanged /\ fsLog' = <<>>)]_vars

\* C5 (corrected): under SERVERLESS_MODE none of the four local-write operations
\* creates the directory or creates, appends to or rewrites a file, and none
\* issues a file-system write; append_to_csv and append_to_jsonl return True,
\* save_to_csv and save_to_json return None, the value they also return when
\* there is nothing to save.
C5_ReadOnlyNoMutation ==
    [][(SERVERLESS_MODE' /\ call'.op \in LocalWriteOps)
       => (/\ FilesUnchanged
           /\ fsLog' = <<>>
           /\ ret' = IF call'.op \in {"append_to_csv", "append_to_jsonl"}
                     THEN PyBool(TRUE) ELSE None)]_vars

\* a read-only process is asked to save a non-empty batch over files that an
\* earlier writable process left, and to append a record those files lack
C5_Witness ==
    /\ SERVERLESS_MODE
    /\ csv_file.exists /\ Len(csv_file.rows) = 2
    /\ ~jsonl_file.exists
    /\ \/ call.op \in {"save_to_csv", "save_to_json"} /\ call.data # <<>> /\ ret = None
       \/ call.op = "append_to_jsonl" /\ ret = PyBool(TRUE)

\* the names a fresh read of the delimited file would give
NamesOnFile(file) == IF file.exists THEN read_college_names_from_csv(file.rows, 0) ELSE {}

\* C16: once the process has cached the names of the path, every later
\* append_to_csv takes the cached set and never reads the file again, whatever
\* the file holds by then: a name of the cached set is skipped, any other name is
\* appended and added to the set.
C16_CacheNeverRereads ==
    [][(call'.op = "append_to_csv" /\ CSV_NAME_CACHE.cached)
       => \A new_name \in {new_name_of(call'.data)} :
              /\ \A k \in 1..Len(fsLog') : fsLog'[k] # "open:r"
              /\ new_name # <<>> =>
                     /\ CSV_NAME_CACHE'.cached
                     /\ CSV_NAME_CACHE'.names = CSV_NAME_CACHE.names \cup {new_name}
                     /\ new_name \in CSV_NAME_CACHE.names <=> csv_file' = csv_file]_vars

\* the file was rewritten after the names were cached, and the append of a name
\* that is cached but no longer on the file was skipped without a read
C16_Witness ==
    /\ call.op = "append_to_csv"
    /\ CSV_NAME_CACHE.cached
    /\ new_name_of(call.data) \in CSV_NAME_CACHE.names
    /\ new_name_of(call.data) \notin NamesOnFile(csv_file)
    /\ NamesOnFile(csv_file) # {}
    /\ fsLog = <<"makedirs">>
    /\ ret = PyBool(TRUE)

\* C24: a delimited file written through append_to_csv matches its header: it
\* has one header row, written by the first append, and every data row has as
\* many cells as the header, so no written row is skipped when the file is read.
C24_RowsMatchHeader ==
    (call.op = "append_to_csv" /\ csv_file.exists) =>
        /\ Len(csv_file.rows) >= 1
        /\ \A j \in 2..Len(csv_file.rows) :
               Len(csv_file.rows[j]) = Len(csv_file.rows[1])

\* C25: within one process the cached name set of the path equals the set of
\* lower-cased 'College Name' values of the rows of the file, after any sequence
\* of append_to_csv and save_to_csv calls, and no name is held by two data rows.
C25_CacheCoherent ==
    CSV_NAME_CACHE.cached =>
        /\ CSV_NAME_CACHE.names = NamesOnFile(csv_file)
        /\ \A name \in CSV_NAME_CACHE.names : RowsNamed(csv_file, name) <= 1

\* the writes on files the last operation issued
FileWrites == LET IsFileWrite(w) == w # "makedirs" IN SelectSeq(fsLog, IsFileWrite)

\* C15: save_data returns a map that holds an entry for a requested format only
\* when that format's file was written; a format whose write failed or that had
\* no data is omitted, and an empty batch gives an empty map, writes no file and
\* makes no remote call.
C15_MapHoldsWrittenFormats ==
    call.op = "save_data" =>
        /\ raised = "none"
        /\ ret.t = "dict"
        /\ "csv" \in DOMAIN ret.d =>
               call.data # <<>> /\ ~call.write_fails /\ csv_file.exists
        /\ "json" \in DOMAIN ret.d =>
               call.data # <<>> /\ ~call.write_fails /\ json_file.exists
        /\ call.data = <<>> =>
               ret.d = <<>> /\ FileWrites = <<>> /\ remoteLog = <<>>

----------------------------------------------------------------------------
(* Claims about save_to_supabase *)

SaveDone == call.op = "save_to_supabase"

\* the identity 4-tuple of a row, normalized
IdentityTuple(row) ==
    <<normalize_case(row.career_path), normalize_case(row.specialization),
      normalize_case(row.university), normalize_case(row.location)>>

\* C2 as stated: after any sequence of sequential save_to_supabase calls, starting
\* from a table without duplicates, no two rows of search_criteria share the same
\* normalized (career_path, specialization, university, location) tuple.
C2_IdentityUnique ==
    \A i, j \in 1..Len(search_criteria) :
        i # j => IdentityTuple(search_criteria[i]) # IdentityTuple(search_criteria[j])

\* every row holds its identity values in the form save_to_supabase stores
StoredNormalized ==
    \A i \in 1..Len(search_criteria) :
        /\ search_criteria[i].career_path = normalize_case(search_criteria[i].career_path)
        /\ search_criteria[i].specialization
               = normalize_case(search_criteria[i].specialization)
        /\ search_criteria[i].university = normalize_case(search_criteria[i].university)
        /\ search_criteria[i].location = normalize_case(search_criteria[i].location)

\* C2 amended: starting from a table without duplicates whose rows hold their
\* identity values in normalized form, after any sequence of sequential
\* save_to_supabase calls no two rows share the same normalized tuple.  The calls
\* never rewrite or remove a row that is not normalized, so the rows are
\* normalized now exactly when they were at the start.
C2_NormalizedIdentityUnique ==
    StoredNormalized =>
        \A i, j \in 1..Len(search_criteria) :
            i # j => IdentityTuple(search_criteria[i]) # IdentityTuple(search_criteria[j])

\* the table started with a normalized row; two rows are stored and the last
\* call, which spelt the career path differently, found that row and updated it
\* in place
C2_Witness ==
    /\ SaveDone
    /\ StoredNormalized
    /\ Len(search_criteria) = 2
    /\ ret.success
    /\ ret.message = MessageId("Updated existing record in Supabase", 1)
    /\ call.career_path # search_criteria[1].career_path
    /\ search_criteria[1].llm_json = call.json_data
    /\ search_criteria[1].university # search_criteria[2].university

\* location is None, empty or whitespace-only
BlankLocation(location) == location.t = "none" \/ Strip(location.s) = <<>>

\* the rows holding the career_path / specialization / university of the last call
SameTriple(row) ==
    /\ row.career_path = normalize_case(call.career_path)
    /\ row.specialization = normalize_case(call.specialization)
    /\ row.university = normalize_case(call.university)

\* C3 as stated: of two documents with identical career_path, specialization and
\* university, one reconciled with location "Delhi" and the other with location
\* None, both are stored: the remote store holds two rows for them, not one.
C3_TwoRowsForDelhiAndNone ==
    (/\ SaveDone
     /\ credentials
     /\ call.location = None
     /\ \E i \in 1..Len(search_criteria) :
            /\ SameTriple(search_criteria[i])
            /\ search_criteria[i].location = Str(<<"D", "e", "l", "h", "i">>))
    => \E j \in 1..Len(search_criteria) :
            /\ SameTriple(search_criteria[j])
            /\ search_criteria[j].location = None

\* the rows of search_criteria a step rewrote
RewrittenRows == {i \in 1..Len(search_criteria) : search_criteria'[i] # search_criteria[i]}

\* C3 amended: the document with location None is never treated as the row of the
\* "Delhi" document: its call fails and leaves every row as it was (one row, not
\* two); and a call rewrites a row only when the row's four identity values are the
\* call's normalized ones, a null matching only a null.
C3_NullNeverCollides ==
    [][call'.op = "save_to_supabase" =>
          /\ call'.location = None =>
                 /\ search_criteria' = search_criteria
                 /\ ~ret'.success
          /\ \A i \in RewrittenRows :
                 /\ search_criteria[i].career_path = normalize_case(call'.career_path)
                 /\ search_criteria[i].specialization = normalize_case(call'.specialization)
                 /\ search_criteria[i].university = normalize_case(call'.university)
                 /\ search_criteria[i].location = normalize_case(call'.location)]_vars

\* the "Delhi" document is stored, the same identity with location None was then
\* reconciled and refused, and the store still holds the one "Delhi" row
C3_Witness ==
    /\ SaveDone
    /\ credentials
    /\ call.location = None
    /\ ~ret.success
    /\ Len(search_criteria) = 1
    /\ SameTriple(search_criteria[1])
    /\ search_criteria[1].location = Str(<<"D", "e", "l", "h", "i">>)

IsWrite(remote_call) == remote_call.op \in {"update", "insert"}

\* C4 as stated: a call with an empty, whitespace-only or None location returns
\* (False, message) and issues zero remote write calls, with or without a job_id.
C4_NoRemoteWrite ==
    (SaveDone /\ BlankLocation(call.location)) =>
        /\ ~ret.success
        /\ \A k \in 1..Len(remoteLog) : ~IsWrite(remoteLog[k])

\* the call got its client: the credentials are set and create_client returned
ClientCreated == credentials /\ call.fault.op # "create_client"

\* C4 amended: such a call returns (False, message), leaves search_criteria as it
\* was and issues no call on it; its only remote call is the one scrape_jobs
\* update that records the failure, made when a job_id is supplied and the call
\* got its client (the credentials are configured and create_client returned);
\* without a client it makes no remote call at all.
C4_FailFastOnlyJobStatus ==
    (SaveDone /\ BlankLocation(call.location)) =>
        /\ ~ret.success
        /\ \A k \in 1..Len(remoteLog) : remoteLog[k].table # "search_criteria"
        /\ remoteLog =
               IF ClientCreated /\ call.job_id # None
               THEN <<[table |-> "scrape_jobs", op |-> "update", id |-> call.job_id.s,
                       save_success |-> FALSE, save_message |-> ret.message]>>
               ELSE <<>>
        /\ ClientCreated =>
               ret.message = Message("Location is required to save data to Supabase.")
        /\ (credentials /\ ~ClientCreated) =>
               ret.message = Message("Error saving to Supabase")

\* a whitespace-only location with a job_id: the call failed and its one remote
\* call was the job's status update
C4_Witness ==
    /\ SaveDone
    /\ credentials
    /\ call.location = Str(<<" ">>)
    /\ call.job_id # None
    /\ ~ret.success
    /\ Len(remoteLog) = 1
    /\ Len(search_criteria) = 1

\* the scrape_jobs calls among the remote calls of the last operation
StatusWrites == LET IsStatus(c) == c.table = "scrape_jobs" IN SelectSeq(remoteLog, IsStatus)

\* the one status write that carries what the call returned
StatusOfResult ==
    <<[table |-> "scrape_jobs", op |-> "update", id |-> call.job_id.s,
       save_success |-> ret.success, save_message |-> ret.message]>>

\* C12 as stated: every outcome of save_to_supabase called with a job_id, missing
\* credentials included, attempts exactly one update of that job's save_success
\* and save_message with the flag and the message the call returns.
C12_EveryOutcomeUpdatesJob ==
    (SaveDone /\ Truthy(call.job_id)) => StatusWrites = StatusOfResult

\* C12 amended: every outcome reached with a client (missing location, update,
\* insert, insert returning no data, remote exception) returns a message and
\* attempts exactly one update of the job's save_success and save_message with the
\* returned flag and message, and a failing status write never escapes; without
\* credentials, or when create_client raises, the call returns (False, message)
\* and makes no remote call at all.
C12_JobStatusOnce ==
    (SaveDone /\ Truthy(call.job_id)) =>
        /\ raised = "none"
        /\ ret.message.text # ""
        /\ ClientCreated => StatusWrites = StatusOfResult
        /\ ~ClientCreated => (remoteLog = <<>> /\ ~ret.success)

\* a remote exception in the insert, followed by a status write that fails too:
\* the call still returns (False, message) after its one attempt
C12_Witness ==
    /\ SaveDone
    /\ credentials
    /\ Truthy(call.job_id)
    /\ call.fault = Fault("insert", TRUE)
    /\ ~ret.success
    /\ Len(remoteLog) = 3
    /\ scrape_jobs[call.job_id.s].save_success = None

\* record_data of the call a step makes
RecordOfCall(c) ==
    record_data_of(c.json_data, c.career_path, c.specialization,
                   location_value_of(c.location), c.university)

\* the call reached the find-then-update-or-insert part and no remote call failed
Reconciles(c) ==
    /\ c.op = "save_to_supabase"
    /\ credentials
    /\ ~BlankLocation(c.location)
    /\ c.fault = NoFault

\* rows whose four identity columns hold the normalized values of the call
RowsOfIdentity(table, rd) ==
    {i \in 1..Len(table) :
        /\ table[i].career_path = rd.career_path
        /\ table[i].specialization = rd.specialization
        /\ table[i].university = rd.university
        /\ table[i].location = rd.location}

\* C13: when a row matches the four normalized identity values, the first such
\* row is rewritten in place with the new document and identity values and the
\* number of rows stays the same; when none matches, exactly one row is appended;
\* no other row changes.
C13_FindThenUpdateOrInsert ==
    [][Reconciles(call') =>
         \A rd \in {RecordOfCall(call')} :
             \A found \in {RowsOfIdentity(search_criteria, rd)} :
                 IF found # {}
                 THEN \A first \in {i \in found : \A j \in found : i <= j} :
                          /\ Len(search_criteria') = Len(search_criteria)
                          /\ search_criteria'[first] = RowOf(search_criteria[first].id, rd)
                          /\ \A j \in 1..Len(search_criteria) :
                                 j # first => search_criteria'[j] = search_criteria[j]
                 ELSE /\ Len(search_criteria') = Len(search_criteria) + 1
                      /\ SubSeq(search_criteria', 1, Len(search_criteria)) = search_criteria
                      /\ RowsOfIdentity(search_criteria', rd) = {Len(search_criteria')}
                      /\ search_criteria'[Len(search_criteria')].llm_json = rd.llm_json]_vars

\* the first of two rows was found and rewritten with the new document while the
\* second row kept another one
C13_Witness ==
    /\ SaveDone
    /\ ret.success
    /\ ret.message = MessageId("Updated existing record in Supabase", 1)
    /\ Len(search_criteria) = 2
    /\ search_criteria[1].llm_json = call.json_data
    /\ search_criteria[2].llm_json # call.json_data

\* an identity value with case and surrounding whitespace folded away
Folded(value) ==
    IF value.t = "none" THEN <<>>
    ELSE LET cleaned == Strip(value.s)
         IN IF cleaned = <<>> THEN <<>> ELSE <<LowerChar(cleaned[1])>> \o Tail(cleaned)

\* trimmed, first character upper-cased, the rest untouched, empty as null
Capitalized(value) ==
    IF Folded(value) = <<>> THEN None
    ELSE Str(<<UpperChar(Strip(value.s)[1])>> \o Tail(Strip(value.s)))

SameUpToCase(c, d) ==
    /\ Folded(c.career_path) = Folded(d.career_path)
    /\ Folded(c.specialization) = Folded(d.specialization)
    /\ Folded(c.university) = Folded(d.university)
    /\ Folded(c.location) = Folded(d.location)

\* C20: a successful call stores its identity values trimmed, with the first
\* character upper-cased and empty as null; a second call whose values differ
\* only in surrounding whitespace or in the case of the first character updates
\* the row of the first instead of adding one; normalizing a stored value again
\* changes nothing.
C20_CaseNormalized ==
    [][(call'.op = "save_to_supabase" /\ ret'.success) =>
         /\ \E i \in 1..Len(search_criteria') :
                /\ search_criteria'[i].id = ret'.message.id
                /\ search_criteria'[i].career_path = Capitalized(call'.career_path)
                /\ search_criteria'[i].specialization = Capitalized(call'.specialization)
                /\ search_criteria'[i].university = Capitalized(call'.university)
                /\ search_criteria'[i].location = Capitalized(call'.location)
         /\ \A i \in 1..Len(search_criteria') :
                /\ normalize_case(search_criteria'[i].career_path)
                       = search_criteria'[i].career_path
                /\ normalize_case(search_criteria'[i].university)
                       = search_criteria'[i].university
                /\ normalize_case(search_criteria'[i].location)
                       = search_criteria'[i].location
         /\ (call.op = "save_to_supabase" /\ ret.success /\ SameUpToCase(call, call')) =>
                /\ Len(search_criteria') = Len(search_criteria)
                /\ ret'.message.id = ret.message.id]_vars

\* " Eng" with an empty university found the row stored as "Eng" with a null
\* university and updated it: one row, not two
C20_Witness ==
    /\ SaveDone
    /\ ret.success
    /\ ret.message.text = "Updated existing record in Supabase"
    /\ call.career_path = Str(<<" ", "E", "n", "g">>)
    /\ call.university = Str(<<>>)
    /\ Len(search_criteria) = 1
    /\ search_criteria[1].career_path = Str(<<"E", "n", "g">>)
    /\ search_criteria[1].university = None

\* the calls of a log on search_criteria with one of the verbs
CriteriaCalls(log, ops) ==
    LET Is(c) == c.table = "search_criteria" /\ c.op \in ops IN SelectSeq(log, Is)

\* C26: with SERVERLESS_MODE true, a non-empty batch and push_to_supabase true,
\* save_to_json writes no file and returns None, and still calls
\* save_to_supabase once with the {"colleges": transform(dedupe(data))} envelope
\* and the identity filters: one look-up and one write of a row that holds them.
C26_ReadOnlyStillPushes ==
    [][(/\ call'.op = "save_to_json"
        /\ SERVERLESS_MODE'
        /\ call'.data # <<>>
        /\ call'.push_to_supabase)
       => \A rd \in {record_data_of(
                         [colleges |-> transform_college_data(
                                           deduplicate_colleges(call'.data))],
                         call'.career_path, call'.specialization,
                         location_value_of(call'.location), call'.university)} :
              /\ ret' = None
              /\ raised' = "none"
              /\ FilesUnchanged
              /\ fsLog' = <<>>
              /\ Len(CriteriaCalls(remoteLog', {"select"})) = 1
              /\ Len(CriteriaCalls(remoteLog', {"update", "insert"})) = 1
              /\ Len(search_criteria') \in {Len(search_criteria), Len(search_criteria) + 1}
              /\ \E i \in RowsOfIdentity(search_criteria', rd) :
                     search_criteria'[i].llm_json = rd.llm_json]_vars

\* a read-only process pushed a batch: no file exists, and the remote store
\* holds the envelope of the batch
C26_Witness ==
    /\ call.op = "save_to_json"
    /\ SERVERLESS_MODE
    /\ call.data # <<>>
    /\ call.push_to_supabase
    /\ ret = None
    /\ ~json_file.exists
    /\ Len(CriteriaCalls(remoteLog, {"select"})) = 1
    /\ Len(CriteriaCalls(remoteLog, {"insert"})) = 1
    /\ Len(search_criteria) = 1
    /\ Len(search_criteria[1].llm_json.colleges) = 1

----------------------------------------------------------------------------
(* Claims about save_to_staging_tables *)

StagingDone == call.op = "save_to_staging_tables"

\* C14: after any sequence of sequential save_to_staging_tables calls on a store
\* that started without duplicates, no two st_college rows share a name, no two
\* st_course rows share a name and no two st_college_courses rows share a
\* (college_id, course_id) pair, whatever the batches repeat.
C14_StagingNoDuplicates ==
    /\ \A i, j \in 1..Len(st_college) :
           i # j => st_college[i].name # st_college[j].name
    /\ \A i, j \in 1..Len(st_course) :
           i # j => st_course[i].name # st_course[j].name
    /\ \A i, j \in 1..Len(st_college_courses) :
           i # j => <<st_college_courses[i].college_id, st_college_courses[i].course_id>>
                        # <<st_college_courses[j].college_id, st_college_courses[j].course_id>>

\* one batch named the college twice and one course twice: the college was
\* inserted once and skipped once, and each course and mapping is stored once
C14_Witness ==
    /\ StagingDone
    /\ ret.success
    /\ ret.message.colleges_inserted = 1
    /\ ret.message.colleges_skipped = 1
    /\ Len(call.json_data.colleges[1]["courses"].l) = 2
    /\ Len(st_college) = 1
    /\ Len(st_course) = 2
    /\ Len(st_college_courses) = 2

\* the stripped names of the colleges of a batch, in order
BatchNames(json_data) ==
    LET cs == Get(json_data, "colleges", <<>>)
    IN [i \in 1..Len(cs) |-> Strip(Get(cs[i], "name", EmptyStr).s)]

\* the names stored in a table
StoredNames(table) == {table[i].name.s : i \in 1..Len(table)}

\* C21: in a save_to_staging_tables call that succeeds, every college with a
\* non-empty name is counted once: as skipped when a row with that exact name
\* exists when it is processed, as inserted when it is absent and the insert
\* returns data; colleges_inserted is the number of st_college rows the call
\* added, and mappings_inserted the number of st_college_courses rows it added.
C21_CountersMatchRows ==
    [][(call'.op = "save_to_staging_tables" /\ ret'.success)
       => \A m \in {ret'.message} : \A names \in {BatchNames(call'.json_data)} :
              LET stores == call'.fault.nodata # "st_college"
                  Found(i) == \/ names[i] \in StoredNames(st_college)
                              \/ stores /\ \E j \in 1..(i - 1) : names[j] = names[i]
                  named == {i \in 1..Len(names) : names[i] # <<>>}
              IN /\ m.colleges_skipped = Cardinality({i \in named : Found(i)})
                 /\ m.colleges_inserted
                        = IF stores THEN Cardinality({i \in named : ~Found(i)}) ELSE 0
                 /\ m.colleges_inserted = Len(st_college') - Len(st_college)
                 /\ m.courses_inserted = Len(st_course') - Len(st_course)
                 /\ m.mappings_inserted
                        = Len(st_college_courses') - Len(st_college_courses)]_vars

\* one call inserted a college and skipped its repetition, and counted two new
\* mappings for three course entries because one mapping was found
C21_Witness ==
    /\ StagingDone
    /\ ret.success
    /\ ret.message.colleges_inserted = 1
    /\ ret.message.colleges_skipped = 1
    /\ ret.message.courses_inserted = 2
    /\ ret.message.mappings_inserted = 2
    /\ Len(call.json_data.colleges) = 2
    /\ Len(call.json_data.colleges[1]["courses"].l)
           + Len(call.json_data.colleges[2]["courses"].l) = 3

\* the calls of the last operation on one table with one verb
CallsOn(table, op) ==
    LET Is(c) == c.table = table /\ c.op = op IN SelectSeq(remoteLog, Is)

\* how often the last operation queried st_course for the name
CourseSelects(course_name) ==
    LET Is(c) == c.table = "st_course" /\ c.op = "select" /\ c.key = course_name
    IN Len(SelectSeq(remoteLog, Is))

\* the stripped course names the batch holds
BatchCourseNames(json_data) ==
    LET cs == Get(json_data, "colleges", <<>>)
    IN UNION {{Strip(Get(Get(cs[i], "courses", EmptyList).l[k], "name", EmptyStr).s) :
                  k \in 1..Len(Get(cs[i], "courses", EmptyList).l)} : i \in 1..Len(cs)}

\* the id of the row of the table with the name
IdOf(table, name) == table[RowWhere(table, "name", Str(name))].id

\* the (college id, course id) pair of every named course of every named college
\* of the batch, in batch order, by the ids the rows with those names have
RECURSIVE PairsOf(_, _, _)
PairsOf(colleges_data, colleges_t, courses_t) ==
    IF colleges_data = <<>> THEN <<>>
    ELSE LET college == Head(colleges_data)
             college_name == Strip(Get(college, "name", EmptyStr).s)
             courses == Get(college, "courses", EmptyList).l
             names == [k \in 1..Len(courses) |-> Strip(Get(courses[k], "name", EmptyStr).s)]
             IsNamed(n) == n # <<>>
             named == SelectSeq(names, IsNamed)
         IN (IF college_name = <<>> THEN <<>>
             ELSE [k \in 1..Len(named) |->
                      <<IdOf(colleges_t, college_name), IdOf(courses_t, named[k])>>])
            \o PairsOf(Tail(colleges_data), colleges_t, courses_t)

\* C22 as stated: within one save_to_staging_tables call st_course is queried at
\* most once for each distinct course name.
C22_CourseQueriedOnce ==
    StagingDone =>
        \A course_name \in BatchCourseNames(call.json_data) :
            CourseSelects(course_name) <= 1

\* C22: within one save_to_staging_tables call st_course is queried at most
\* once for each course name that was found or whose insert returned data; in a
\* call that succeeds without a failed insert every occurrence of a course is
\* mapped with the id of the st_course row of its name.
C22_ResolvedCourseQueriedOnce ==
    StagingDone =>
        /\ \A course_name \in BatchCourseNames(call.json_data) :
               (call.fault.nodata # "st_course"
                    \/ course_name \in StoredNames(st_course))
                   => CourseSelects(course_name) <= 1
        /\ (ret.success /\ call.fault.nodata = "none") =>
               \A selects \in {CallsOn("st_college_courses", "select")} :
                   [k \in 1..Len(selects) |-> selects[k].key]
                       = PairsOf(call.json_data.colleges, st_college, st_course)

\* a course was named by two colleges of one batch: it was queried once and both
\* mappings carry the id of its row
C22_Witness ==
    /\ StagingDone
    /\ ret.success
    /\ call.fault.nodata = "none"
    /\ Len(call.json_data.colleges) = 2
    /\ BatchCourseNames(call.json_data) = {<<"c">>}
    /\ CourseSelects(<<"c">>) = 1
    /\ Len(CallsOn("st_college_courses", "select")) = 2
    /\ ret.message.colleges_inserted = 2

\* the inserts of a call into one table that stored a row: every insert but the
\* one that raised and those that returned no data
StoredInserts(log, fault, table) ==
    LET Stored(k) == /\ log[k].table = table
                     /\ log[k].op = "insert"
                     /\ k # fault.raise_at
                     /\ fault.nodata # table
    IN Cardinality({k \in 1..Len(log) : Stored(k)})

\* the table kept its rows and gained one row per insert that stored one
KeptAndGrew(before, after, log, fault, table) ==
    /\ Len(after) = Len(before) + StoredInserts(log, fault, table)
    /\ SubSeq(after, 1, Len(before)) = before

\* C27: save_to_staging_tables is not atomic. When a remote call on the staging
\* tables raises, the call returns (False, message) and every row inserted
\* before the failure stays stored; when college inserts return no data, such a
\* college is skipped with its courses and mappings and the next college of the
\* batch is still processed.
C27_NotAtomic ==
    [][call'.op = "save_to_staging_tables"
       => \A log \in {remoteLog'} : \A fault \in {call'.fault} :
              /\ KeptAndGrew(st_college, st_college', log, fault, "st_college")
              /\ KeptAndGrew(st_course, st_course', log, fault, "st_course")
              /\ KeptAndGrew(st_college_courses, st_college_courses', log, fault,
                             "st_college_courses")
              /\ (fault.raise_at \in 1..Len(log) /\ log[fault.raise_at].table # "scrape_jobs")
                     => /\ ~ret'.success
                        /\ ret'.message = Message("Error saving to staging tables")
                        /\ Len(log) = fault.raise_at
              /\ (fault.nodata = "st_college" /\ ret'.success)
                     => /\ \A k \in 1..(Len(log) - 1) :
                               (log[k].table = "st_college" /\ log[k].op = "insert")
                                   => log[k + 1].table \in {"st_college", "scrape_jobs"}
                        /\ \A names \in {BatchNames(call'.json_data)} :
                               Cardinality({k \in 1..Len(log) :
                                               log[k].table = "st_college"
                                                   /\ log[k].op = "select"})
                                   = Cardinality({i \in 1..Len(names) : names[i] # <<>>})]_vars

\* the fifth remote call of a batch, the look-up of the mapping, raised: the
\* call failed, and the college its second call inserted and the course its
\* fourth call inserted are stored
C27_Witness ==
    /\ StagingDone
    /\ ~ret.success
    /\ call.fault.raise_at = 5
    /\ Len(remoteLog) = 5
    /\ remoteLog[2].table = "st_college"
    /\ remoteLog[2].op = "insert"
    /\ remoteLog[4].table = "st_course"
    /\ remoteLog[4].op = "insert"
    /\ remoteLog[5].table = "st_college_courses"
    /\ remoteLog[2].key \in StoredNames(st_college)
    /\ Len(st_course) = 1
    /\ st_college_courses = <<>>

\* a call on one of the tables of the reconciliation raised during the last operation
ReconcileCallRaised ==
    \/ /\ StagingDone
       /\ call.fault.raise_at \in 1..Len(remoteLog)
       /\ remoteLog[call.fault.raise_at].table # "scrape_jobs"
    \/ /\ SaveDone
       /\ credentials
       /\ call.fault.op \in {"select", "update", "insert"}
       /\ \E k \in 1..Len(remoteLog) :
              remoteLog[k].table = "search_criteria" /\ remoteLog[k].op = call.fault.op

\* C19: when save_to_staging_tables or save_to_supabase is called with a job_id
\* and a remote call of the reconciliation raises, the call returns (False,
\* message) and attempts to set that job's save_success to False with the message.
C19_RemoteFailureMarksJob ==
    (ReconcileCallRaised /\ Truthy(call.job_id)) =>
        /\ ~ret.success
        /\ \E k \in 1..Len(remoteLog) :
               /\ remoteLog[k].table = "scrape_jobs"
               /\ remoteLog[k].op = "update"
               /\ remoteLog[k].id = call.job_id.s
               /\ remoteLog[k].save_success = FALSE
               /\ remoteLog[k].save_message = ret.message

----------------------------------------------------------------------------
(* Claims about load_existing_colleges *)

LoadDone == call.op = "load_existing_colleges"

\* the last operation read the delimited file / the line-delimited file
CsvLoaded == LoadDone /\ <<"c", "s", "v">> \in DOMAIN ret.d /\ csv_file.exists
JsonlLoaded == LoadDone /\ <<"j", "s", "o", "n">> \in DOMAIN ret.d /\ jsonl_file.exists

\* C17: loading the names of a delimited file never raises; a header without a
\* 'College Name' column gives the empty set, and otherwise the result is
\* exactly the trimmed, lower-cased non-empty names of the rows that were read
\* before any read error and have as many cells as the header.
C17_CsvLoadSkipsBadInput ==
    /\ LoadDone => (raised = "none" /\ ret.t = "dict")
    /\ CsvLoaded =>
           LET names == ret.d[<<"c", "s", "v">>]
               rows == csv_file.rows
               header == IF rows = <<>> THEN <<>> ELSE Head(rows)
               IsNameColumn(i) == Strip(header[i]) = KeyChars("College Name")
               WasRead(j) == call.fail_at = 0 \/ j < call.fail_at
           IN /\ \A n \in names : n # <<>> /\ Strip(n) = n /\ Lower(n) = n
              /\ (~\E i \in 1..Len(header) : IsNameColumn(i)) => names = {}
              /\ \A i \in 1..Len(header) :
                     IsNameColumn(i) =>
                         names = {Lower(Strip(rows[j][i])) :
                                     j \in {k \in 2..Len(rows) :
                                               /\ WasRead(k)
                                               /\ Len(rows[k]) = Len(header)
                                               /\ Strip(rows[k][i]) # <<>>}}

\* a file whose name column is the second one: the row of one cell was skipped,
\* the next row gave its trimmed lower-cased name, the last row could not be read
C17_Witness ==
    /\ CsvLoaded
    /\ call.fail_at = 4
    /\ Len(csv_file.rows) = 4
    /\ Len(csv_file.rows[1]) = 2
    /\ csv_file.rows[2] = <<<<"A">>>>
    /\ csv_file.rows[3] = <<<<"G">>, <<" ", "B", " ">>>>
    /\ csv_file.rows[4] = <<<<"G">>, <<"X">>>>
    /\ ret.d[<<"c", "s", "v">>] = {<<"b">>}

\* a line that holds a JSON object with a non-empty text name
Usable(line) ==
    /\ line.valid
    /\ IsDict(line.v)
    /\ IsStr(Get(line.v, "College Name", EmptyStr))
    /\ new_name_of(line.v) # <<>>

\* C18: load_existing_colleges skips each line of the line-delimited file that
\* is not a usable JSON object and returns the lower-cased name of every
\* well-formed line, wherever the other lines sit.
C18_SkipsUnusableLines ==
    JsonlLoaded =>
        ret.d[<<"j", "s", "o", "n">>]
            = {new_name_of(jsonl_file.rows[j].v) :
                  j \in {k \in 1..Len(jsonl_file.rows) : Usable(jsonl_file.rows[k])}}

----------------------------------------------------------------------------
(* Claims about deduplicate_colleges *)

\* C11: no operation of the core lets an exception escape: whatever the records
\* hold (a null identity attribute included), the operation called last returned a
\* value instead of raising.
C11_NeverRaises == call.op # "none" => raised = "none"

\* the identity of a record: its 'College Name', else its 'name', else ""
IdentityOf(record) ==
    IF "College Name" \in DOMAIN record THEN record["College Name"].s
    ELSE IF "name" \in DOMAIN record THEN record["name"].s
    ELSE <<>>

\* identities compared case-insensitively after trimming
SameIdentity(r1, r2) == Lower(Strip(IdentityOf(r1))) = Lower(Strip(IdentityOf(r2)))

\* number of attributes that are non-null and non-empty after trimming
FilledAttributes(record) ==
    Cardinality({k \in DOMAIN record :
        /\ record[k] # None
        /\ IsStr(record[k]) => Strip(record[k].s) # <<>>})

DedupeDone == call.op = "deduplicate_colleges" /\ raised = "none"

\* C6: deduplicate_colleges returns no more records than it was given, and no two
\* returned records have the same identity, compared case-insensitively after trimming.
C6_DedupeUnique ==
    DedupeDone =>
        /\ Len(ret) <= Len(call.colleges)
        /\ \A i, j \in 1..Len(ret) : i # j => ~SameIdentity(ret[i], ret[j])

\* a batch with two records of one identity in different case was collapsed, and
\* a record of another identity survived beside it
C6_Witness ==
    /\ DedupeDone
    /\ Len(call.colleges) = 3
    /\ Len(ret) = 2
    /\ \E i, j \in 1..3 :
        /\ i # j
        /\ SameIdentity(call.colleges[i], call.colleges[j])
        /\ IdentityOf(call.colleges[i]) # IdentityOf(call.colleges[j])

\* the input positions holding the identity of `record`
GroupOf(record, batch) ==
    {i \in 1..Len(batch) :
        /\ Strip(IdentityOf(batch[i])) # <<>>
        /\ SameIdentity(batch[i], record)}

\* the position that must survive in a group: the greatest count of filled
\* attributes, and the earliest position among those with that count
SurvivorOf(group, batch) ==
    CHOOSE i \in group :
        \A m \in group :
            \/ FilledAttributes(batch[i]) > FilledAttributes(batch[m])
            \/ FilledAttributes(batch[i]) = FilledAttributes(batch[m]) /\ i <= m

\* C7: within each group of records sharing a normalized identity, the survivor is
\* the record with the strictly greater count of filled attributes, and on a tie the
\* earlier-seen one; every group with a non-empty identity has exactly that survivor.
C7_RicherOrEarlierSurvives ==
    DedupeDone =>
        /\ \A j \in 1..Len(ret) :
               /\ GroupOf(ret[j], call.colleges) # {}
               /\ ret[j] = call.colleges[SurvivorOf(GroupOf(ret[j], call.colleges),
                                                    call.colleges)]
        /\ \A i \in 1..Len(call.colleges) :
               Strip(IdentityOf(call.colleges[i])) # <<>> =>
                   \E j \in 1..Len(ret) : SameIdentity(ret[j], call.colleges[i])

\* the pair {"name":"X","type":"Govt"} then the poorer same-identity record:
\* the first, richer record is the survivor; and a tie that kept the earlier record
C7_Witness ==
    /\ DedupeDone
    /\ Len(call.colleges) = 3
    /\ call.colleges[1] = Dict({<<"name", Str(<<"X">>)>>,
                                <<"type", Str(<<"G", "o", "v", "t">>)>>})
    /\ call.colleges[2] = Dict({<<"College Name", Str(<<" ", "x", " ">>)>>})
    /\ call.colleges[3] = Dict({<<"College Name", Str(<<" ", "x", " ">>)>>,
                                <<"type", Str(<<"G", "o", "v", "t">>)>>})
    /\ ret = <<call.colleges[1]>>

\* the input position at which the identity of `record` was first seen
FirstSeen(record, batch) ==
    CHOOSE i \in GroupOf(record, batch) : \A m \in GroupOf(record, batch) : i <= m

\* C23: deduplicate_colleges returns the survivors in the order in which their
\* normalized identities were first seen in the input: a richer duplicate that
\* replaces an earlier record stands at the earlier record's place.
C23_FirstSeenOrder ==
    DedupeDone =>
        \A i, j \in 1..Len(ret) :
            i < j => FirstSeen(ret[i], call.colleges) < FirstSeen(ret[j], call.colleges)

\* the third record replaced the poorer first one of its identity and is returned
\* before the record of the identity seen second
C23_Witness ==
    /\ DedupeDone
    /\ Len(call.colleges) = 3
    /\ SameIdentity(call.colleges[1], call.colleges[3])
    /\ ~SameIdentity(call.colleges[1], call.colleges[2])
    /\ call.colleges[1] # call.colleges[3]
    /\ ret = <<call.colleges[3], call.colleges[2]>>

----------------------------------------------------------------------------
(* Claims about transform_college_data *)

TransformDone == call.op = "transform_college_data"

FixedKeys == {"city", "name", "type", "course_category", "total_courses",
              "match_percentage", "match_level", "has_website_link", "college_id",
              "courses"}

\* source field -> output field, for the scalar fields
ScalarSources ==
    {<<"Location", "city">>, <<"College Name", "name">>, <<"College Type", "type">>,
     <<"Course Category", "course_category">>, <<"Total Courses", "total_courses">>,
     <<"Match Percentage", "match_percentage">>, <<"Match Level", "match_level">>,
     <<"Has Website Link", "has_website_link">>, <<"College ID", "college_id">>}

\* C8: transform_college_data is total over records missing any optional field: every
\* output entity has exactly the fixed keys, "" for each missing scalar and [] for
\* missing courses, and the input records are not modified.
C8_TransformTotal ==
    TransformDone =>
        /\ Len(ret) = Len(call.colleges)
        /\ colleges = call.colleges
        /\ \A i \in 1..Len(ret) :
            /\ DOMAIN ret[i] = FixedKeys
            /\ \A m \in ScalarSources :
                   m[1] \notin DOMAIN call.colleges[i] => ret[i][m[2]] = Str(<<>>)
            /\ "Courses" \notin DOMAIN call.colleges[i] => ret[i]["courses"] = List(<<>>)

\* a record with no optional field at all was transformed beside one that has some
C8_Witness ==
    /\ TransformDone
    /\ Len(call.colleges) = 2
    /\ DOMAIN call.colleges[1] = {}
    /\ DOMAIN call.colleges[2] = {"College Name", "Location"}
    /\ ret[1]["name"] = Str(<<>>)
    /\ ret[2]["name"] = Str(<<"A", "B", "C">>)
    /\ ret[2]["courses"] = List(<<>>)

\* C9: transform_college_data carries the record's identity into the output: the
\* record {"name":"ABC"} transforms to an entity whose name is "ABC", with every
\* other scalar field "" and courses [].
C9_IdentityCarried ==
    TransformDone =>
        \A i \in 1..Len(ret) :
            /\ ret[i]["name"] = Str(IdentityOf(call.colleges[i]))
            /\ call.colleges[i] = Dict({<<"name", Str(<<"A", "B", "C">>)>>}) =>
                   /\ ret[i]["name"] = Str(<<"A", "B", "C">>)
                   /\ \A k \in FixedKeys \ {"name", "courses"} : ret[i][k] = Str(<<>>)
                   /\ ret[i]["courses"] = List(<<>>)

\* the raw 'Entrance Exams' of course c of input record i (Absent when the key is missing)
RawExams(i, c) ==
    Get(call.colleges[i]["Courses"].l[c], "Entrance Exams", Absent)

\* C10: for every course, the transformed entrance_exams is a list of non-empty
\* trimmed strings: "J, N" gives ["J","N"], the list ["J"] gives ["J"], and "" or an
\* absent value gives []; empty or whitespace-only entries never appear.
C10_EntranceExamsNormalized ==
    TransformDone =>
        \A i \in 1..Len(ret) :
            \A c \in 1..Len(ret[i]["courses"].l) :
                LET out == ret[i]["courses"].l[c]["entrance_exams"]
                    raw == RawExams(i, c)
                IN /\ IsList(out)
                   /\ \A e \in 1..Len(out.l) :
                          /\ IsStr(out.l[e])
                          /\ out.l[e].s # <<>>
                          /\ Strip(out.l[e].s) = out.l[e].s
                   /\ raw = Str(<<"J", ",", " ", "N">>) =>
                          out = List(<<Str(<<"J">>), Str(<<"N">>)>>)
                   /\ raw = List(<<Str(<<"J">>)>>) => out = List(<<Str(<<"J">>)>>)
                   /\ raw \in {Str(<<>>), Absent} => out = List(<<>>)

\* the delimited string "J, N" was transformed to the two exams
C10_Witness ==
    /\ TransformDone
    /\ Len(ret) = 1
    /\ Len(ret[1]["courses"].l) = 1
    /\ RawExams(1, 1) = Str(<<"J", ",", " ", "N">>)
    /\ ret[1]["courses"].l[1]["entrance_exams"] = List(<<Str(<<"J">>), Str(<<"N">>)>>)

====
